---- MODULE Spec2Model ----
(***************************************************************************)
(* Model of the Nuvoton NuMicro flash driver, src/flash/nor/numicro.c.     *)
(*                                                                         *)
(* Every C function of the driver is an operator over a machine record m   *)
(* that threads the target's registers, the bank, the trace of host        *)
(* accesses of the running call and the environment's choices (which host  *)
(* access fails, how long the flash controller stays busy, which scratch   *)
(* allocations fail).  An action of the state machine is one whole call of *)
(* a driver entry point.  Loops of the C code are iterations of their body *)
(* (Loop), each body an operator of its own.                               *)
(*                                                                         *)
(* TLC integers are 32 bit signed, so data words are drawn below 2^31;     *)
(* every address the driver computes here stays far below that.            *)
(***************************************************************************)
EXTENDS Integers, Sequences, FiniteSets, TLC

VARIABLES target, bank, call

vars == <<target, bank, call>>

(***************************************************************************)
(* Register locations and bits (numicro.c:33-102).                         *)
(***************************************************************************)
NUMICRO_SYS_BASE == 1342177280
NUMICRO_SYS_WRPROT == 1342177536
NUMICRO_SYSCLK_AHBCLK == 1342177796
NUMICRO_FLASH_ISPCON == 1342226432
NUMICRO_FLASH_ISPADR == 1342226436
NUMICRO_FLASH_ISPDAT == 1342226440
NUMICRO_FLASH_ISPCMD == 1342226444
NUMICRO_FLASH_ISPTRG == 1342226448
NUMICRO_FLASH_CHEAT == 1342226460

NUMICRO_APROM_BASE == 0
NUMICRO_DATA_BASE == 126976
NUMICRO_LDROM_BASE == 1048576
NUMICRO_CONFIG_BASE == 3145728

NUMICRO_CONFIG0 == 1342226432
NUMICRO_CONFIG1 == 1342226436

AHBCLK_ISP_EN == 4
AHBCLK_SRAM_EN == 16
AHBCLK_TICK_EN == 32

ISPCON_ISPEN == 1
ISPCON_APUEN == 8
ISPCON_CFGUEN == 16
ISPCON_LDUEN == 32
ISPCON_ISPFF == 64

CONFIG0_LOCK_MASK == 2

ISPCMD_READ == 0
ISPCMD_WRITE == 33
ISPCMD_ERASE == 34
ISPCMD_CHIPERASE == 38
ISPTRG_ISPGO == 1

REG_KEY1 == 89
REG_KEY2 == 22
REG_KEY3 == 136

NUMICRO_PAGESIZE == 512

\* Result codes of the driver and of the host interface.
ERROR_OK == "ERROR_OK"
ERROR_FAIL == "ERROR_FAIL"
ERROR_TARGET_NOT_HALTED == "ERROR_TARGET_NOT_HALTED"
ERROR_TARGET_RESOURCE_NOT_AVAILABLE == "ERROR_TARGET_RESOURCE_NOT_AVAILABLE"
ERROR_FLASH_DST_BREAKS_ALIGNMENT == "ERROR_FLASH_DST_BREAKS_ALIGNMENT"
ERROR_FLASH_OPERATION_FAILED == "ERROR_FLASH_OPERATION_FAILED"
\* The code a failing host access (debug transport error) returns.
ERROR_HOST == "ERROR_TARGET_FAILURE"
\* The code target_run_algorithm returns when the routine does not finish.
ERROR_TARGET_TIMEOUT == "ERROR_TARGET_TIMEOUT"

(***************************************************************************)
(* Bounds of the model.                                                    *)
(***************************************************************************)
\* A host access with index 1..MaxFailAt of a call may be the failing one.
MaxFailAt == 14
\* The controller operation with index 1..MaxSlowOp of a call may be slow,
\* or set the failure flag.
MaxSlowOp == 2
\* Sectors 0..MaxSector are used as erase arguments.
MaxSector == 2
\* Up to MaxSrcFails data-buffer allocations fail before one succeeds.
MaxSrcFails == 2

\* busy value of a controller that never completes.
Stuck == 0 - 1

\* Polls during which a slow operation keeps GO set (Stuck: for ever).
SlowDelays == {1, 100, Stuck}

(***************************************************************************)
(* Bit operations on 32-bit register values.                               *)
(***************************************************************************)
RECURSIVE BitAnd(_, _)
BitAnd(a, b) ==
    IF a = 0 \/ b = 0 THEN 0
    ELSE (a % 2) * (b % 2) + 2 * BitAnd(a \div 2, b \div 2)

RECURSIVE BitOr(_, _)
BitOr(a, b) ==
    IF a = 0 THEN b
    ELSE IF b = 0 THEN a
    ELSE (IF a % 2 = 1 \/ b % 2 = 1 THEN 1 ELSE 0) + 2 * BitOr(a \div 2, b \div 2)

BitClear(a, b) == a - BitAnd(a, b)

(***************************************************************************)
(* Loops.  A loop body takes the machine to the machine after one          *)
(* iteration and sets m.exit to "break" when it leaves the loop and to     *)
(* "return" when it returns from the function (m.ret is the result).       *)
(* Loop iterates the body until then.  LoopUpTo runs at most k iterations; *)
(* it splits k in halves to keep the evaluation shallow.                   *)
(***************************************************************************)
RECURSIVE LoopUpTo(_, _, _)
LoopUpTo(Body(_), m, k) ==
    IF m.exit # "run" THEN m
    ELSE IF k = 1 THEN Body(m)
    ELSE LoopUpTo(Body, LoopUpTo(Body, m, k \div 2), k - k \div 2)

RECURSIVE LoopFrom(_, _, _)
LoopFrom(Body(_), m, k) ==
    LET a == LoopUpTo(Body, m, k) IN
    IF a.exit # "run" THEN a ELSE LoopFrom(Body, a, 2 * k)

Loop(Body(_), m) == LoopFrom(Body, [m EXCEPT !.exit = "run"], 1)

(***************************************************************************)
(* The target hardware, as the driver sees it through the debug host.      *)
(***************************************************************************)

\* The data the controller returns for an ISP read of addr.
FlashRead(m, addr) ==
    IF addr = NUMICRO_CONFIG0 THEN m.env.config0
    ELSE IF addr = NUMICRO_CONFIG1 THEN m.env.config1
    ELSE m.env.rdval

\* The controller starts the operation latched in ISPCMD/ISPADR/ISPDAT
\* (the data latch is an operand of a program operation only).  busy
\* counts the reads of ISPTRG that will still see GO set; overlap tells
\* that GO was written while the controller was busy.
HwTrigger(m) ==
    LET k == Len(m.ops) + 1
        slow == k = m.env.slowOp
        stuck == m.busy = Stuck \/ (slow /\ m.env.slowDelay = Stuck)
        op == [cmd |-> m.ispcmd, addr |-> m.ispadr,
               dat |-> IF m.ispcmd = ISPCMD_WRITE THEN m.ispdat ELSE 0,
               overlap |-> m.busy # 0]
    IN  [m EXCEPT !.ops = Append(@, op),
                  !.busy = IF stuck THEN Stuck
                           ELSE IF slow THEN m.env.slowDelay ELSE 0,
                  !.ispdat = IF ~stuck /\ m.ispcmd = ISPCMD_READ
                             THEN FlashRead(m, m.ispadr) ELSE @,
                  !.ispcon = IF ~stuck /\ k = m.env.ffOp
                             THEN BitOr(@, ISPCON_ISPFF) ELSE @]

\* Effect of a 32-bit store to a register.
HwWrite(m, addr, v) ==
    IF addr = NUMICRO_SYS_WRPROT THEN
        IF m.keypos = 0 /\ v = REG_KEY1 THEN [m EXCEPT !.keypos = 1]
        ELSE IF m.keypos = 1 /\ v = REG_KEY2 THEN [m EXCEPT !.keypos = 2]
        ELSE IF m.keypos = 2 /\ v = REG_KEY3
        THEN [m EXCEPT !.keypos = 0, !.wrprot = IF m.env.lockStuck THEN 0 ELSE 1]
        ELSE [m EXCEPT !.keypos = 0, !.wrprot = 0]
    ELSE IF addr = NUMICRO_SYSCLK_AHBCLK THEN [m EXCEPT !.ahbclk = v]
    ELSE IF addr = NUMICRO_FLASH_ISPCON THEN
        \* ISPFF is cleared by writing 1 to it and is not set by a store
        [m EXCEPT !.ispcon = IF BitAnd(v, ISPCON_ISPFF) # 0
                             THEN BitClear(v, ISPCON_ISPFF)
                             ELSE BitOr(v, BitAnd(m.ispcon, ISPCON_ISPFF))]
    ELSE IF addr = NUMICRO_FLASH_ISPADR THEN [m EXCEPT !.ispadr = v]
    ELSE IF addr = NUMICRO_FLASH_ISPDAT THEN [m EXCEPT !.ispdat = v]
    ELSE IF addr = NUMICRO_FLASH_ISPCMD THEN [m EXCEPT !.ispcmd = v]
    ELSE IF addr = NUMICRO_FLASH_ISPTRG THEN
        IF BitAnd(v, ISPTRG_ISPGO) # 0 THEN HwTrigger(m) ELSE m
    ELSE IF addr = NUMICRO_FLASH_CHEAT THEN [m EXCEPT !.cheat = v]
    ELSE m

\* Value a 32-bit load of a register returns.  ISPTRG reads as the GO bit
\* and, in its other bits, what the part puts there (env.trgBits).
HwValue(m, addr) ==
    IF addr = NUMICRO_SYS_BASE THEN m.env.partid
    ELSE IF addr = NUMICRO_SYS_WRPROT THEN m.wrprot
    ELSE IF addr = NUMICRO_SYSCLK_AHBCLK THEN m.ahbclk
    ELSE IF addr = NUMICRO_FLASH_ISPCON THEN m.ispcon
    ELSE IF addr = NUMICRO_FLASH_ISPADR THEN m.ispadr
    ELSE IF addr = NUMICRO_FLASH_ISPDAT THEN m.ispdat
    ELSE IF addr = NUMICRO_FLASH_ISPCMD THEN m.ispcmd
    ELSE IF addr = NUMICRO_FLASH_ISPTRG
    THEN (IF m.busy # 0 THEN ISPTRG_ISPGO ELSE 0) + m.env.trgBits
    ELSE IF addr = NUMICRO_FLASH_CHEAT THEN m.cheat
    ELSE 0

\* Time passes with every poll of ISPTRG: one poll less until GO clears.
HwAfterRead(m, addr) ==
    IF addr = NUMICRO_FLASH_ISPTRG /\ m.busy > 0
    THEN [m EXCEPT !.busy = @ - 1] ELSE m

(***************************************************************************)
(* The debug host's memory accesses.  The access with index env.failAt     *)
(* of the call fails and touches nothing on the target; a failed           *)
(* target_read_u32 stores 0 through its result pointer.                    *)
(***************************************************************************)
HostFails(m) == m.n + 1 = m.env.failAt

target_write_u32(m, addr, v) ==
    IF HostFails(m)
    THEN [m EXCEPT !.n = @ + 1, !.ret = ERROR_HOST,
                   !.log = Append(@, [op |-> "W", addr |-> addr, val |-> v, ok |-> FALSE])]
    ELSE [HwWrite(m, addr, v) EXCEPT !.n = @ + 1, !.ret = ERROR_OK,
                   !.log = Append(@, [op |-> "W", addr |-> addr, val |-> v, ok |-> TRUE])]

target_read_u32(m, addr) ==
    IF HostFails(m)
    THEN [m EXCEPT !.n = @ + 1, !.ret = ERROR_HOST, !.val = 0,
                   !.log = Append(@, [op |-> "R", addr |-> addr, val |-> 0, ok |-> FALSE])]
    ELSE [HwAfterRead(m, addr) EXCEPT !.n = @ + 1, !.ret = ERROR_OK,
                   !.val = HwValue(m, addr),
                   !.log = Append(@, [op |-> "R", addr |-> addr,
                                      val |-> HwValue(m, addr), ok |-> TRUE])]

\* target_write_memory(target, addr, 4, 1, buffer): one 32-bit store.
target_write_memory(m, addr, v) == target_write_u32(m, addr, v)

(***************************************************************************)
(* Sequencing of the C statements.  Try(m, Rest) is                        *)
(*     retval = <call giving m>; if (retval != ERROR_OK) return retval;    *)
(*     <Rest>                                                              *)
(* TryIn is the same inside a loop body, where the return also leaves the  *)
(* loop.  Then(m, Rest) goes on with Rest whatever the call returned.      *)
(***************************************************************************)
Try(m, Rest(_)) == IF m.ret # ERROR_OK THEN m ELSE Rest(m)

TryIn(m, Rest(_)) ==
    IF m.ret # ERROR_OK THEN [m EXCEPT !.exit = "return"] ELSE Rest(m)

Then(m, Rest(_)) == Rest(m)

(***************************************************************************)
(* numicro_reg_unlock (numicro.c:480-515)                                  *)
(***************************************************************************)
\* numicro.c:491-502, the three key stores when the register reads 0.
reg_unlock_keys(r1) ==
    IF r1.val = 0
    THEN Try(target_write_u32(r1, NUMICRO_SYS_WRPROT, REG_KEY1), LAMBDA w1 :
         Try(target_write_u32(w1, NUMICRO_SYS_WRPROT, REG_KEY2), LAMBDA w2 :
         target_write_u32(w2, NUMICRO_SYS_WRPROT, REG_KEY3)))
    ELSE r1

\* Mutant: registers found still locked by the second read are an error.
numicro_reg_unlock_strict(m0) ==
    Try(target_read_u32(m0, NUMICRO_SYS_WRPROT), LAMBDA r1 :
    Try(reg_unlock_keys(r1), LAMBDA keys :
    Try(target_read_u32(keys, NUMICRO_SYS_WRPROT), LAMBDA r2 :
    [r2 EXCEPT !.ret = IF r2.val = 1 THEN ERROR_OK ELSE ERROR_FAIL])))

numicro_reg_unlock(m0) ==
    Try(target_read_u32(m0, NUMICRO_SYS_WRPROT), LAMBDA r1 :
    Try(reg_unlock_keys(r1), LAMBDA keys :
    Try(target_read_u32(keys, NUMICRO_SYS_WRPROT), LAMBDA r2 :
    [r2 EXCEPT !.ret = ERROR_OK])))

(***************************************************************************)
(* numicro_init_isp (numicro.c:517-557)                                    *)
(***************************************************************************)
\* Mutant: the clock gates are added to the value read instead of OR-ed.
numicro_init_isp_body_additive(m0) ==
    Try(numicro_reg_unlock(m0), LAMBDA u :
    Try(target_read_u32(u, NUMICRO_SYSCLK_AHBCLK), LAMBDA r1 :
    Try(target_write_u32(r1, NUMICRO_SYSCLK_AHBCLK,
            r1.val + AHBCLK_ISP_EN + AHBCLK_SRAM_EN + AHBCLK_TICK_EN),
        LAMBDA w1 :
    Try(target_read_u32(w1, NUMICRO_FLASH_ISPCON), LAMBDA r2 :
    Try(target_write_u32(r2, NUMICRO_FLASH_ISPCON,
            BitOr(r2.val, ISPCON_ISPFF + ISPCON_LDUEN + ISPCON_APUEN
                          + ISPCON_CFGUEN + ISPCON_ISPEN)),
        LAMBDA w2 :
    Try(target_write_u32(w2, NUMICRO_FLASH_CHEAT, 1), LAMBDA w3 :
    [w3 EXCEPT !.ret = ERROR_OK]))))))

\* Mutant: the flash-control register is given the five bits alone.
numicro_init_isp_body_overwrite(m0) ==
    Try(numicro_reg_unlock(m0), LAMBDA u :
    Try(target_read_u32(u, NUMICRO_SYSCLK_AHBCLK), LAMBDA r1 :
    Try(target_write_u32(r1, NUMICRO_SYSCLK_AHBCLK,
            BitOr(r1.val, AHBCLK_ISP_EN + AHBCLK_SRAM_EN + AHBCLK_TICK_EN)),
        LAMBDA w1 :
    Try(target_read_u32(w1, NUMICRO_FLASH_ISPCON), LAMBDA r2 :
    Try(target_write_u32(r2, NUMICRO_FLASH_ISPCON,
            ISPCON_ISPFF + ISPCON_LDUEN + ISPCON_APUEN
            + ISPCON_CFGUEN + ISPCON_ISPEN),
        LAMBDA w2 :
    Try(target_write_u32(w2, NUMICRO_FLASH_CHEAT, 1), LAMBDA w3 :
    [w3 EXCEPT !.ret = ERROR_OK]))))))

\* numicro.c:527-556, the part of numicro_init_isp after the halted check.
numicro_init_isp_body(m0) ==
    Try(numicro_reg_unlock(m0), LAMBDA u :
    Try(target_read_u32(u, NUMICRO_SYSCLK_AHBCLK), LAMBDA r1 :
    Try(target_write_u32(r1, NUMICRO_SYSCLK_AHBCLK,
            BitOr(r1.val, AHBCLK_ISP_EN + AHBCLK_SRAM_EN + AHBCLK_TICK_EN)),
        LAMBDA w1 :
    Try(target_read_u32(w1, NUMICRO_FLASH_ISPCON), LAMBDA r2 :
    Try(target_write_u32(r2, NUMICRO_FLASH_ISPCON,
            BitOr(r2.val, ISPCON_ISPFF + ISPCON_LDUEN + ISPCON_APUEN
                          + ISPCON_CFGUEN + ISPCON_ISPEN)),
        LAMBDA w2 :
    Try(target_write_u32(w2, NUMICRO_FLASH_CHEAT, 1), LAMBDA w3 :
    [w3 EXCEPT !.ret = ERROR_OK]))))))

\* Mutant: the halted check of numicro.c:522-525 left out.
numicro_init_isp_unchecked(m0) == numicro_init_isp_body(m0)

numicro_init_isp(m0) ==
    IF ~m0.halted THEN [m0 EXCEPT !.ret = ERROR_TARGET_NOT_HALTED]
    ELSE numicro_init_isp_body(m0)

(***************************************************************************)
(* numicro_fmc_cmd (numicro.c:559-601)                                     *)
(***************************************************************************)
\* timeout = 100 (numicro.c:581)
FMC_TIMEOUT == 100

\* Mutant: the data register is read back without waiting for GO to clear.
fmc_poll_iter_nowait(m) == [m EXCEPT !.exit = "break"]

\* Mutant: the retry counter is tested one poll late.
fmc_poll_iter_late(m) ==
    TryIn(target_read_u32(m, NUMICRO_FLASH_ISPTRG), LAMBDA r :
    IF BitAnd(r.val, ISPTRG_ISPGO) = 0 THEN [r EXCEPT !.exit = "break"]
    ELSE IF r.timeout < 0 THEN [r EXCEPT !.ret = ERROR_FAIL, !.exit = "return"]
    ELSE [r EXCEPT !.timeout = @ - 1])

\* One iteration of the poll loop, numicro.c:582-594.
fmc_poll_iter(m) ==
    TryIn(target_read_u32(m, NUMICRO_FLASH_ISPTRG), LAMBDA r :
    IF BitAnd(r.val, ISPTRG_ISPGO) = 0 THEN [r EXCEPT !.exit = "break"]
    ELSE IF r.timeout <= 0 THEN [r EXCEPT !.ret = ERROR_FAIL, !.exit = "return"]
    ELSE [r EXCEPT !.timeout = @ - 1])

\* numicro.c:596-600, after the poll loop p; on success m.val is *rdata.
fmc_cmd_result(p) ==
    IF p.exit = "return" THEN p
    ELSE Try(target_read_u32(p, NUMICRO_FLASH_ISPDAT), LAMBDA r :
         [r EXCEPT !.ret = ERROR_OK])

\* The body of numicro_fmc_cmd.
fmc_cmd_body(m0, cmd, addr, wdata) ==
    Try(target_write_u32(m0, NUMICRO_FLASH_ISPCMD, cmd), LAMBDA w1 :
    Try(target_write_u32(w1, NUMICRO_FLASH_ISPDAT, wdata), LAMBDA w2 :
    Try(target_write_u32(w2, NUMICRO_FLASH_ISPADR, addr), LAMBDA w3 :
    Try(target_write_u32(w3, NUMICRO_FLASH_ISPTRG, ISPTRG_ISPGO), LAMBDA w4 :
    fmc_cmd_result(Loop(fmc_poll_iter, [w4 EXCEPT !.timeout = FMC_TIMEOUT]))))))

\* Nothing was stored through a result pointer.
Unset == 0 - 1

\* The invocation of numicro_fmc_cmd that took m0 to b, recorded in m.fmc:
\* the entries from+1..to of the log are its accesses; rdata is the value
\* stored through the rdata pointer by the read of ISPDAT, or Unset when
\* the function returned before that read.
fmc_record(m0, b, cmd, addr, wdata) ==
    LET last == b.log[Len(b.log)]
        stored == last.op = "R" /\ last.addr = NUMICRO_FLASH_ISPDAT
    IN
    [b EXCEPT !.fmc = Append(@, [cmd |-> cmd, addr |-> addr, wdata |-> wdata,
                                  from |-> Len(m0.log), to |-> Len(b.log),
                                  ret |-> b.ret,
                                  rdata |-> IF stored THEN b.val ELSE Unset])]

numicro_fmc_cmd(m0, cmd, addr, wdata) ==
    fmc_record(m0, fmc_cmd_body(m0, cmd, addr, wdata), cmd, addr, wdata)

(***************************************************************************)
(* Scratch memory and routine execution, provided by the debug host.       *)
(* Working areas are named by the variable of numicro_writeblock holding   *)
(* them.  m.areas is the set of areas the running call holds.              *)
(***************************************************************************)
\* Whether the routine area can be had, and how many allocation attempts
\* of the data buffer fail before one succeeds, is the environment's.
target_alloc_working_area(m, area, size) ==
    LET ok == IF area = "write_algorithm" THEN m.env.algOk
              ELSE m.srcTries + 1 > m.env.srcFails
    IN  [m EXCEPT !.srcTries = IF area = "source" THEN @ + 1 ELSE @,
                  !.areas = IF ok THEN @ \cup {area} ELSE @,
                  !.ret = IF ok THEN ERROR_OK ELSE ERROR_TARGET_RESOURCE_NOT_AVAILABLE,
                  !.log = Append(@, [op |-> "alloc", addr |-> area, val |-> size, ok |-> ok])]

target_free_working_area(m, area) ==
    [m EXCEPT !.areas = @ \ {area},
              !.log = Append(@, [op |-> "free", addr |-> area, val |-> 0, ok |-> TRUE])]

\* target_write_buffer: data is a sequence of 32-bit words (or the routine
\* image), stored at the start of the working area.
target_write_buffer(m, area, data) ==
    IF HostFails(m)
    THEN [m EXCEPT !.n = @ + 1, !.ret = ERROR_HOST,
                   !.log = Append(@, [op |-> "write_buffer", addr |-> area,
                                      val |-> Len(data), ok |-> FALSE])]
    ELSE [m EXCEPT !.n = @ + 1, !.ret = ERROR_OK,
                   !.ram = [@ EXCEPT ![area] = data],
                   !.log = Append(@, [op |-> "write_buffer", addr |-> area,
                                      val |-> Len(data), ok |-> TRUE])]

\* The routine image, numicro.c:605-662, stands for its 64 bytes.
numicro_flash_write_code == <<"numicro_flash_write_code">>
\* sizeof(numicro_flash_write_code): 24 Thumb instructions and 4 words.
SizeofWriteCode == 24 * 2 + 4 * 4

\* The routine after its store of GO for word r3: it spins while ISPTRG
\* has GO set (numicro.c:640-644), for ever on a stuck controller (m.hung).
write_code_wait(g) ==
    IF g.busy = Stuck THEN [g EXCEPT !.hung = TRUE, !.exit = "break"]
    ELSE [g EXCEPT !.busy = 0, !.r3 = @ + 1]

\* One pass of the routine's loop .L2 on the target (numicro.c:622-648):
\* while r3 # r2 it stores r1 + 4 r3 to ISPADR, word r3 of the buffer at r0
\* to ISPDAT and GO to ISPTRG, and waits.  It never writes ISPCMD.
write_code_iter(m) ==
    IF m.r3 = m.r2 THEN [m EXCEPT !.exit = "break"]
    ELSE write_code_wait(
             HwWrite(HwWrite(HwWrite(m, NUMICRO_FLASH_ISPADR, m.r1 + 4 * m.r3),
                             NUMICRO_FLASH_ISPDAT, m.ram[m.r0][m.r3 + 1]),
                     NUMICRO_FLASH_ISPTRG, ISPTRG_ISPGO))

\* The host's record of the run that took m to x.
run_record(m, x, r0, r1, r2, entry) ==
    [x EXCEPT !.n = @ + 1, !.exit = m.exit,
              !.ret = IF x.hung THEN ERROR_TARGET_TIMEOUT ELSE ERROR_OK,
              !.runs = Append(@, [r0 |-> r0, r1 |-> r1, r2 |-> r2,
                                  code |-> m.ram[entry],
                                  staged |-> Len(m.ram[r0]),
                                  buffer_size |-> m.buffer_size]),
              !.log = Append(@, [op |-> "run_algorithm", addr |-> r1,
                                 val |-> r2, ok |-> ~x.hung])]

\* target_run_algorithm with the three register parameters; the host gives
\* up after its timeout when the routine does not reach its breakpoint.
target_run_algorithm(m, r0, r1, r2, entry) ==
    IF HostFails(m)
    THEN [m EXCEPT !.n = @ + 1, !.ret = ERROR_HOST,
                   !.log = Append(@, [op |-> "run_algorithm", addr |-> r1,
                                      val |-> r2, ok |-> FALSE])]
    ELSE run_record(m, Loop(write_code_iter,
                            [m EXCEPT !.r0 = r0, !.r1 = r1, !.r2 = r2, !.r3 = 0]),
                    r0, r1, r2, entry)

(***************************************************************************)
(* numicro_writeblock (numicro.c:664-762).  The buffer argument is m.buf,  *)
(* a sequence of words of which m.bp are consumed; buffer_size, address,   *)
(* count and retval are the locals of the function.                        *)
(***************************************************************************)
\* Mutant: a buffer of 256 bytes is still requested.
writeblock_alloc_smaller_floor(a, smaller) ==
    IF smaller < 256
    THEN [target_free_working_area(a, "write_algorithm")
             EXCEPT !.buffer_size = smaller,
                    !.ret = ERROR_TARGET_RESOURCE_NOT_AVAILABLE,
                    !.exit = "return"]
    ELSE [a EXCEPT !.buffer_size = smaller]

\* numicro.c:711-718, after a refused request a.
writeblock_alloc_smaller(a, smaller) ==
    IF smaller <= 256
    THEN [target_free_working_area(a, "write_algorithm")
             EXCEPT !.buffer_size = smaller,
                    !.ret = ERROR_TARGET_RESOURCE_NOT_AVAILABLE,
                    !.exit = "return"]
    ELSE [a EXCEPT !.buffer_size = smaller]

\* One iteration of the allocation loop, numicro.c:710-719.
writeblock_alloc_iter(m) ==
    Then(target_alloc_working_area(m, "source", m.buffer_size), LAMBDA a :
    IF a.ret = ERROR_OK THEN [a EXCEPT !.exit = "break"]
    ELSE writeblock_alloc_smaller(a, m.buffer_size \div 4))

\* Mutant: a failed run is reported as a lack of resources.
writeblock_advance_unavailable(r, thisrun_count) ==
    IF r.ret # ERROR_OK
    THEN [r EXCEPT !.retval = ERROR_TARGET_RESOURCE_NOT_AVAILABLE,
                   !.exit = "break"]
    ELSE [r EXCEPT !.retval = ERROR_OK,
                   !.bp = @ + thisrun_count,
                   !.address = @ + thisrun_count * 4,
                   !.count = @ - thisrun_count]

\* Mutant: the source pointer is not advanced.
writeblock_advance_stale(r, thisrun_count) ==
    IF r.ret # ERROR_OK
    THEN [r EXCEPT !.retval = ERROR_FLASH_OPERATION_FAILED, !.exit = "break"]
    ELSE [r EXCEPT !.retval = ERROR_OK,
                   !.address = @ + thisrun_count * 4,
                   !.count = @ - thisrun_count]

\* Mutant: the host's status of a failed run is returned as it is.
writeblock_advance_raw(r, thisrun_count) ==
    IF r.ret # ERROR_OK
    THEN [r EXCEPT !.retval = r.ret, !.exit = "break"]
    ELSE [r EXCEPT !.retval = ERROR_OK,
                   !.bp = @ + thisrun_count,
                   !.address = @ + thisrun_count * 4,
                   !.count = @ - thisrun_count]

\* numicro.c:743-751, after the run r of thisrun_count words.
writeblock_advance(r, thisrun_count) ==
    IF r.ret # ERROR_OK
    THEN [r EXCEPT !.retval = ERROR_FLASH_OPERATION_FAILED, !.exit = "break"]
    ELSE [r EXCEPT !.retval = ERROR_OK,
                   !.bp = @ + thisrun_count,
                   !.address = @ + thisrun_count * 4,
                   !.count = @ - thisrun_count]

\* numicro.c:731-751, one iteration with count > 0.
writeblock_run(m, thisrun_count) ==
    Then(target_write_buffer(m, "source",
             SubSeq(m.buf, m.bp + 1, m.bp + thisrun_count)), LAMBDA w :
    IF w.ret # ERROR_OK THEN [w EXCEPT !.retval = w.ret, !.exit = "break"]
    ELSE writeblock_advance(
             target_run_algorithm(w, "source", m.address, thisrun_count,
                                  "write_algorithm"),
             thisrun_count))

\* Mutant: the words of a run are the buffer's size rounded up.
writeblock_iter_roundup(m) ==
    IF ~(m.count > 0) THEN [m EXCEPT !.exit = "break"]
    ELSE writeblock_run(m, IF m.count > (m.buffer_size + 3) \div 4
                           THEN (m.buffer_size + 3) \div 4 ELSE m.count)

\* Mutant: a run stages half of what the buffer holds.
writeblock_iter_half(m) ==
    IF ~(m.count > 0) THEN [m EXCEPT !.exit = "break"]
    ELSE writeblock_run(m, IF m.count > m.buffer_size \div 8
                           THEN m.buffer_size \div 8 ELSE m.count)

\* One iteration of the write loop, numicro.c:730-752.
writeblock_iter(m) ==
    IF ~(m.count > 0) THEN [m EXCEPT !.exit = "break"]
    ELSE writeblock_run(m, IF m.count > m.buffer_size \div 4
                           THEN m.buffer_size \div 4 ELSE m.count)

\* numicro.c:754-761, after the write loop l.
writeblock_release(l) ==
    [target_free_working_area(target_free_working_area(l, "source"),
                              "write_algorithm")
        EXCEPT !.ret = l.retval]

\* numicro.c:709-761, with the routine uploaded.
writeblock_buffered(u, buffer_size, address, count) ==
    Then(Loop(writeblock_alloc_iter, [u EXCEPT !.buffer_size = buffer_size]),
         LAMBDA s :
    IF s.exit = "return" THEN s
    ELSE writeblock_release(
             Loop(writeblock_iter,
                  [s EXCEPT !.retval = ERROR_OK, !.bp = 0,
                            !.address = address, !.count = count])))

\* Mutant: the alignment of offset is checked after the routine's upload.
numicro_writeblock_late_check(m0, offset, count) ==
    Then(target_alloc_working_area(m0, "write_algorithm", SizeofWriteCode),
         LAMBDA a :
    IF a.ret # ERROR_OK THEN [a EXCEPT !.ret = ERROR_TARGET_RESOURCE_NOT_AVAILABLE]
    ELSE
    Try(target_write_buffer(a, "write_algorithm", numicro_flash_write_code),
        LAMBDA u :
    IF offset % 2 = 1 THEN [u EXCEPT !.ret = ERROR_FLASH_DST_BREAKS_ALIGNMENT]
    ELSE
    writeblock_buffered(u,
        IF 1024 < m0.env.working_area_size \div 2
        THEN m0.env.working_area_size \div 2 ELSE 1024,
        m0.bank.base + offset, count)))

numicro_writeblock(m0, offset, count) ==
    IF offset % 2 = 1 THEN [m0 EXCEPT !.ret = ERROR_FLASH_DST_BREAKS_ALIGNMENT]
    ELSE
    Then(target_alloc_working_area(m0, "write_algorithm", SizeofWriteCode),
         LAMBDA a :
    IF a.ret # ERROR_OK THEN [a EXCEPT !.ret = ERROR_TARGET_RESOURCE_NOT_AVAILABLE]
    ELSE
    Try(target_write_buffer(a, "write_algorithm", numicro_flash_write_code),
        LAMBDA u :
    writeblock_buffered(u,
        IF 1024 < m0.env.working_area_size \div 2
        THEN m0.env.working_area_size \div 2 ELSE 1024,
        m0.bank.base + offset, count)))

(***************************************************************************)
(* numicro_protect_check (numicro.c:765-807).  The results of the two      *)
(* numicro_fmc_cmd calls are not looked at; a config word that was not     *)
(* stored keeps the indeterminate value env.garbage of the local array.    *)
(***************************************************************************)
\* numicro.c:793-806, with config[0] as the first command left it.
protect_check_set(c1, rdata0) ==
    LET config0 == IF rdata0 = Unset THEN c1.env.garbage ELSE rdata0
        set == IF BitAnd(config0, CONFIG0_LOCK_MASK) = 0 THEN 1 ELSE 0
    IN  [c1 EXCEPT !.ret = ERROR_OK,
                   !.bank.sectors = [j \in 1..c1.bank.num_sectors |->
                                        [@[j] EXCEPT !.is_protected = set]]]

numicro_protect_check(m0) ==
    IF ~m0.halted THEN [m0 EXCEPT !.ret = ERROR_TARGET_NOT_HALTED] ELSE
    Try(numicro_init_isp(m0), LAMBDA i :
    Then(numicro_fmc_cmd(i, ISPCMD_READ, NUMICRO_CONFIG0, 0), LAMBDA c0 :
    protect_check_set(numicro_fmc_cmd(c0, ISPCMD_READ, NUMICRO_CONFIG1, 0),
                      c0.fmc[Len(c0.fmc)].rdata)))

(***************************************************************************)
(* numicro_erase (numicro.c:810-875)                                       *)
(***************************************************************************)
\* timeout = 100 (numicro.c:843)
ERASE_TIMEOUT == 100

\* Mutant: the poll is left when the GO bit reads clear.
erase_poll_iter_gobit(m) ==
    TryIn(target_read_u32(m, NUMICRO_FLASH_ISPTRG), LAMBDA r :
    IF BitAnd(r.val, ISPTRG_ISPGO) = 0 THEN [r EXCEPT !.exit = "break"]
    ELSE IF r.timeout <= 0 THEN [r EXCEPT !.ret = ERROR_FAIL, !.exit = "return"]
    ELSE [r EXCEPT !.timeout = @ - 1])

\* Mutant: a sector whose poll timed out is passed over.
erase_poll_iter_ignore(m) ==
    TryIn(target_read_u32(m, NUMICRO_FLASH_ISPTRG), LAMBDA r :
    IF r.val = 0 THEN [r EXCEPT !.exit = "break"]
    ELSE IF r.timeout <= 0 THEN [r EXCEPT !.exit = "break"]
    ELSE [r EXCEPT !.timeout = @ - 1])

\* One iteration of the poll loop, numicro.c:844-856.
erase_poll_iter(m) ==
    TryIn(target_read_u32(m, NUMICRO_FLASH_ISPTRG), LAMBDA r :
    IF r.val = 0 THEN [r EXCEPT !.exit = "break"]
    ELSE IF r.timeout <= 0 THEN [r EXCEPT !.ret = ERROR_FAIL, !.exit = "return"]
    ELSE [r EXCEPT !.timeout = @ - 1])

\* "check for failure" after a sector, numicro.c:858-868.
erase_check_failure(m) ==
    Try(target_read_u32(m, NUMICRO_FLASH_ISPCON), LAMBDA r :
    IF BitAnd(r.val, ISPCON_ISPFF) # 0
    THEN target_write_u32(r, NUMICRO_FLASH_ISPCON, BitOr(r.val, ISPCON_ISPFF))
    ELSE r)

\* numicro.c:858-869, after the poll loop p of a sector.
erase_sector_done(p) ==
    IF p.exit = "return" THEN p
    ELSE TryIn(erase_check_failure(p), LAMBDA k :
         [k EXCEPT !.i = @ + 1, !.exit = "run"])

\* Mutant: the last sector of the range is left out (i < last).
erase_iter_exclusive(m, last) ==
    IF ~(m.i < last) THEN [m EXCEPT !.exit = "break"] ELSE
    TryIn(target_write_u32(m, NUMICRO_FLASH_ISPADR,
                           m.bank.base + m.bank.sectors[m.i + 1].offset),
          LAMBDA a :
    TryIn(target_write_u32(a, NUMICRO_FLASH_ISPTRG, ISPTRG_ISPGO), LAMBDA g :
    erase_sector_done(Loop(erase_poll_iter, [g EXCEPT !.timeout = ERASE_TIMEOUT]))))

\* One iteration of for (i = first; i <= last; i++), numicro.c:832-869;
\* sector i is sectors[i + 1].
erase_iter(m, last) ==
    IF ~(m.i <= last) THEN [m EXCEPT !.exit = "break"] ELSE
    TryIn(target_write_u32(m, NUMICRO_FLASH_ISPADR,
                           m.bank.base + m.bank.sectors[m.i + 1].offset),
          LAMBDA a :
    TryIn(target_write_u32(a, NUMICRO_FLASH_ISPTRG, ISPTRG_ISPGO), LAMBDA g :
    erase_sector_done(Loop(erase_poll_iter, [g EXCEPT !.timeout = ERASE_TIMEOUT]))))

\* numicro.c:871-874, after the sector loop l.
erase_done(l) ==
    IF l.exit = "return" THEN l ELSE [l EXCEPT !.ret = ERROR_OK]

numicro_erase(m0, first, last) ==
    IF ~m0.halted THEN [m0 EXCEPT !.ret = ERROR_TARGET_NOT_HALTED] ELSE
    Try(numicro_init_isp(m0), LAMBDA i :
    Try(target_write_u32(i, NUMICRO_FLASH_ISPCMD, ISPCMD_ERASE), LAMBDA c :
    erase_done(Loop(LAMBDA s : erase_iter(s, last), [c EXCEPT !.i = first]))))

(***************************************************************************)
(* numicro_write (numicro.c:878-966).  count is in bytes, m.buf holds      *)
(* the count / 4 words of the buffer.                                      *)
(***************************************************************************)
\* timeout = 100 (numicro.c:930)
WRITE_TIMEOUT == 100

\* One iteration of the poll loop, numicro.c:931-943.
write_poll_iter(m) ==
    TryIn(target_read_u32(m, NUMICRO_FLASH_ISPTRG), LAMBDA r :
    IF r.val = 0 THEN [r EXCEPT !.exit = "break"]
    ELSE IF r.timeout <= 0 THEN [r EXCEPT !.ret = ERROR_FAIL, !.exit = "return"]
    ELSE [r EXCEPT !.timeout = @ - 1])

\* numicro.c:915 (i += 4), after the poll loop p of a word.
write_word_done(p) ==
    IF p.exit = "return" THEN p ELSE [p EXCEPT !.i = @ + 4, !.exit = "run"]

\* Mutant: the data register is stored before the address register.
write_iter_data_first(m, offset, count) ==
    IF ~(m.i < count) THEN [m EXCEPT !.exit = "break"] ELSE
    TryIn(target_write_memory(m, NUMICRO_FLASH_ISPDAT, m.buf[m.i \div 4 + 1]),
          LAMBDA d :
    TryIn(target_write_u32(d, NUMICRO_FLASH_ISPADR, m.bank.base + offset + m.i),
          LAMBDA a :
    TryIn(target_write_u32(a, NUMICRO_FLASH_ISPTRG, ISPTRG_ISPGO), LAMBDA g :
    write_word_done(Loop(write_poll_iter, [g EXCEPT !.timeout = WRITE_TIMEOUT])))))

\* One iteration of for (i = 0; i < count; i += 4), numicro.c:915-945.
write_iter(m, offset, count) ==
    IF ~(m.i < count) THEN [m EXCEPT !.exit = "break"] ELSE
    TryIn(target_write_u32(m, NUMICRO_FLASH_ISPADR, m.bank.base + offset + m.i),
          LAMBDA a :
    TryIn(target_write_memory(a, NUMICRO_FLASH_ISPDAT, m.buf[m.i \div 4 + 1]),
          LAMBDA d :
    TryIn(target_write_u32(d, NUMICRO_FLASH_ISPTRG, ISPTRG_ISPGO), LAMBDA g :
    write_word_done(Loop(write_poll_iter, [g EXCEPT !.timeout = WRITE_TIMEOUT])))))

\* The fallback, numicro.c:908-946, entered when the block write returned
\* ERROR_TARGET_RESOURCE_NOT_AVAILABLE; m.exit = "return" when it returned
\* from numicro_write.
write_fallback(m, offset, count) ==
    Loop(LAMBDA s : write_iter(s, offset, count),
         [m EXCEPT !.fellback = TRUE, !.i = 0])

\* Mutant: the flash-control register is written back whatever was read.
write_check_failure_always(m) ==
    Try(target_read_u32(m, NUMICRO_FLASH_ISPCON), LAMBDA r :
    Try(target_write_u32(r, NUMICRO_FLASH_ISPCON, BitOr(r.val, ISPCON_ISPFF)),
        LAMBDA w : [w EXCEPT !.ret = ERROR_OK]))

\* "check for failure" after the write, numicro.c:948-965.
write_check_failure(m) ==
    Try(target_read_u32(m, NUMICRO_FLASH_ISPCON), LAMBDA r :
    IF BitAnd(r.val, ISPCON_ISPFF) # 0
    THEN Try(target_write_u32(r, NUMICRO_FLASH_ISPCON, BitOr(r.val, ISPCON_ISPFF)),
             LAMBDA w : [w EXCEPT !.ret = ERROR_OK])
    ELSE [r EXCEPT !.ret = ERROR_OK])

\* Mutant: a refused block write is not followed by the fallback.
write_block_only(c, offset, count) ==
    Then(numicro_writeblock(c, offset, count \div 4), LAMBDA b :
    [b EXCEPT !.blockret = b.ret, !.exit = "break"])

\* numicro.c:903-946: the block write, and the fallback when it is refused.
\* m.blockret is the value numicro_writeblock returned.
write_block_or_fallback(c, offset, count) ==
    Then(numicro_writeblock(c, offset, count \div 4), LAMBDA b :
    IF b.ret = ERROR_TARGET_RESOURCE_NOT_AVAILABLE
    THEN write_fallback([b EXCEPT !.blockret = b.ret], offset, count)
    ELSE [b EXCEPT !.blockret = b.ret, !.exit = "break"])

\* numicro.c:948-965, after the block write or the fallback f.
write_done(f) ==
    IF f.exit = "return" THEN f ELSE write_check_failure(f)

numicro_write(m0, offset, count) ==
    IF ~m0.halted THEN [m0 EXCEPT !.ret = ERROR_TARGET_NOT_HALTED] ELSE
    Try(numicro_init_isp(m0), LAMBDA i :
    Try(target_write_u32(i, NUMICRO_FLASH_ISPCMD, ISPCMD_WRITE), LAMBDA c :
    write_done(write_block_or_fallback(c, offset, count))))

(***************************************************************************)
(* The part catalog and numicro_probe (numicro.c:124-470, 968-1055).       *)
(***************************************************************************)
NUMICRO_BANKS_GENERAL(aprom_size, data_size, ldrom_size, config_size) ==
    << [base |-> NUMICRO_APROM_BASE, size |-> aprom_size],
       [base |-> NUMICRO_DATA_BASE, size |-> data_size],
       [base |-> NUMICRO_LDROM_BASE, size |-> ldrom_size],
       [base |-> NUMICRO_CONFIG_BASE, size |-> config_size] >>

\* Entries of numicro_parts[] used by the model, in table order
\* (numicro.c:134, 454, 469).
numicro_parts ==
    << [partname |-> "M052LAN", partid |-> 20992, n_banks |-> 4,
        bank |-> NUMICRO_BANKS_GENERAL(8 * 1024, 4 * 1024, 4 * 1024, 4)],
       [partname |-> "NUC230LC2AE", partid |-> 268578823, n_banks |-> 4,
        bank |-> NUMICRO_BANKS_GENERAL(32 * 1024, 4 * 1024, 8 * 1024, 8)],
       [partname |-> "UNKNOWN", partid |-> 0, n_banks |-> 4,
        bank |-> NUMICRO_BANKS_GENERAL(128 * 1024, 0 * 1024, 16 * 1024, 8)] >>

\* Mutant: a part ID of zero is no part.
get_cpu_type_search_nonzero(r) ==
    LET hits == {i \in 1..Len(numicro_parts) :
                    r.val # 0 /\ numicro_parts[i].partid = r.val} IN
    IF hits = {} THEN [r EXCEPT !.ret = ERROR_FAIL]
    ELSE [r EXCEPT !.ret = ERROR_OK,
                   !.val = CHOOSE i \in hits : \A j \in hits : i <= j]

\* numicro.c:980-990: the first entry with the part ID read; on success
\* m.val is its index.
get_cpu_type_search(r) ==
    LET hits == {i \in 1..Len(numicro_parts) : numicro_parts[i].partid = r.val} IN
    IF hits = {} THEN [r EXCEPT !.ret = ERROR_FAIL]
    ELSE [r EXCEPT !.ret = ERROR_OK,
                   !.val = CHOOSE i \in hits : \A j \in hits : i <= j]

numicro_get_cpu_type(m0) ==
    Then(target_read_u32(m0, NUMICRO_SYS_BASE), LAMBDA r :
    IF r.ret # ERROR_OK THEN [r EXCEPT !.ret = ERROR_FLASH_OPERATION_FAILED]
    ELSE get_cpu_type_search(r))

\* Mutant: a base that matches no region is given the first region.
numicro_get_flash_size_default(m, cpu) ==
    LET hits == {i \in 1..cpu.n_banks : m.bank.base = cpu.bank[i].base} IN
    IF hits = {} THEN [m EXCEPT !.ret = ERROR_OK, !.val = cpu.bank[1].size]
    ELSE [m EXCEPT !.ret = ERROR_OK,
                   !.val = cpu.bank[CHOOSE i \in hits : \A j \in hits : i <= j].size]

\* numicro_get_flash_size; on success m.val is *flash_size.
numicro_get_flash_size(m, cpu) ==
    LET hits == {i \in 1..cpu.n_banks : m.bank.base = cpu.bank[i].base} IN
    IF hits = {} THEN [m EXCEPT !.ret = ERROR_FLASH_OPERATION_FAILED]
    ELSE [m EXCEPT !.ret = ERROR_OK,
                   !.val = cpu.bank[CHOOSE i \in hits : \A j \in hits : i <= j].size]

\* Mutant: a region's last, partial page counts as a sector.
probe_sectors_roundup(s, cpu, flash_size) ==
    LET num_pages == (flash_size + NUMICRO_PAGESIZE - 1) \div NUMICRO_PAGESIZE IN
    [s EXCEPT !.ret = ERROR_OK,
              !.bank.num_sectors = num_pages,
              !.bank.size = flash_size,
              !.bank.sectors = [i \in 1..num_pages |->
                    [offset |-> (i - 1) * NUMICRO_PAGESIZE,
                     size |-> NUMICRO_PAGESIZE,
                     is_erased |-> -1, is_protected |-> 0]],
              !.bank.probed = TRUE,
              !.bank.cpu = cpu.partname]

\* Mutant: the sector offsets start one page into the bank.
probe_sectors_shifted(s, cpu, flash_size) ==
    LET num_pages == flash_size \div NUMICRO_PAGESIZE IN
    [s EXCEPT !.ret = ERROR_OK,
              !.bank.num_sectors = num_pages,
              !.bank.size = flash_size,
              !.bank.sectors = [i \in 1..num_pages |->
                    [offset |-> i * NUMICRO_PAGESIZE,
                     size |-> NUMICRO_PAGESIZE,
                     is_erased |-> -1, is_protected |-> 0]],
              !.bank.probed = TRUE,
              !.bank.cpu = cpu.partname]

\* numicro.c:1025-1045, with the geometry resolved.
probe_sectors(s, cpu, flash_size) ==
    LET num_pages == flash_size \div NUMICRO_PAGESIZE IN
    [s EXCEPT !.ret = ERROR_OK,
              !.bank.num_sectors = num_pages,
              !.bank.size = flash_size,
              !.bank.sectors = [i \in 1..num_pages |->
                    [offset |-> (i - 1) * NUMICRO_PAGESIZE,
                     size |-> NUMICRO_PAGESIZE,
                     is_erased |-> -1, is_protected |-> 0]],
              !.bank.probed = TRUE,
              !.bank.cpu = cpu.partname]

\* Mutant: a bank already probed is not probed again.
numicro_probe_memoized(m0) ==
    IF m0.bank.probed THEN [m0 EXCEPT !.ret = ERROR_OK] ELSE
    Then(numicro_get_cpu_type(m0), LAMBDA t :
    IF t.ret # ERROR_OK THEN [t EXCEPT !.ret = ERROR_FLASH_OPERATION_FAILED] ELSE
    Then(numicro_get_flash_size(t, numicro_parts[t.val]), LAMBDA s :
    IF s.ret # ERROR_OK THEN [s EXCEPT !.ret = ERROR_FLASH_OPERATION_FAILED]
    ELSE probe_sectors(s, numicro_parts[t.val], s.val)))

\* Mutant: the bank is marked probed before the part is looked up.
numicro_probe_eager(m0) ==
    Then(numicro_get_cpu_type([m0 EXCEPT !.bank.probed = TRUE]), LAMBDA t :
    IF t.ret # ERROR_OK THEN [t EXCEPT !.ret = ERROR_FLASH_OPERATION_FAILED] ELSE
    Then(numicro_get_flash_size(t, numicro_parts[t.val]), LAMBDA s :
    IF s.ret # ERROR_OK THEN [s EXCEPT !.ret = ERROR_FLASH_OPERATION_FAILED]
    ELSE probe_sectors(s, numicro_parts[t.val], s.val)))

numicro_probe(m0) ==
    Then(numicro_get_cpu_type(m0), LAMBDA t :
    IF t.ret # ERROR_OK THEN [t EXCEPT !.ret = ERROR_FLASH_OPERATION_FAILED] ELSE
    Then(numicro_get_flash_size(t, numicro_parts[t.val]), LAMBDA s :
    IF s.ret # ERROR_OK THEN [s EXCEPT !.ret = ERROR_FLASH_OPERATION_FAILED]
    ELSE probe_sectors(s, numicro_parts[t.val], s.val)))

\* Mutant: the probed flag is not consulted.
numicro_auto_probe_always(m0) ==
    numicro_probe(m0)

numicro_auto_probe(m0) ==
    IF m0.bank.probed THEN [m0 EXCEPT !.ret = ERROR_OK]
    ELSE numicro_probe(m0)

(***************************************************************************)
(* The numicro read_isp, write_isp and chip_erase commands                 *)
(* (numicro.c:1079-1154).                                                  *)
(***************************************************************************)
numicro_handle_read_isp_command(m0, address) ==
    Try(numicro_init_isp(m0), LAMBDA i :
    Try(numicro_fmc_cmd(i, ISPCMD_READ, address, 0), LAMBDA c :
    [c EXCEPT !.ret = ERROR_OK]))

numicro_handle_write_isp_command(m0, address, ispdat) ==
    Try(numicro_init_isp(m0), LAMBDA i :
    Try(numicro_fmc_cmd(i, ISPCMD_WRITE, address, ispdat), LAMBDA c :
    [c EXCEPT !.ret = ERROR_OK]))

\* Mutant: the result of numicro_init_isp is not looked at.
numicro_handle_chip_erase_command_unguarded(m0) ==
    Then(numicro_init_isp(m0), LAMBDA i :
    Try(numicro_fmc_cmd(i, ISPCMD_CHIPERASE, 0, 0), LAMBDA c :
    [c EXCEPT !.ret = ERROR_OK]))

numicro_handle_chip_erase_command(m0) ==
    Try(numicro_init_isp(m0), LAMBDA i :
    Try(numicro_fmc_cmd(i, ISPCMD_CHIPERASE, 0, 0), LAMBDA c :
    [c EXCEPT !.ret = ERROR_OK]))

(***************************************************************************)
(* The state machine.  target is the part of the target's state that       *)
(* lasts from one call to the next, bank the flash bank record, call the   *)
(* record of the driver call that has just returned (op "none" between     *)
(* calls).  The latches ISPCMD/ISPADR/ISPDAT and the position in the       *)
(* unlock key sequence are not carried over: the driver and the routine    *)
(* store to a latch in the same call before any trigger that uses it.      *)
(***************************************************************************)
\* What the environment may do to one call: nothing, fail one host access,
\* make one controller operation slow or stuck, make one set ISPFF, or
\* keep the registers locked whatever is stored to the lock register.
NoFault ==
    [failAt |-> 0, slowOp |-> 0, slowDelay |-> 0, ffOp |-> 0, lockStuck |-> FALSE,
     trgBits |-> 0]

Faults ==
    {NoFault}
    \cup {[NoFault EXCEPT !.failAt = k] : k \in 1..MaxFailAt}
    \cup {[NoFault EXCEPT !.slowOp = k, !.slowDelay = d] :
              k \in 1..MaxSlowOp, d \in SlowDelays}
    \cup {[NoFault EXCEPT !.ffOp = k] : k \in 1..MaxSlowOp}
    \cup {[NoFault EXCEPT !.lockStuck = TRUE]}

\* Scratch memory of the target: working_area_size, whether the routine
\* area can be allocated, and how many data-buffer requests fail.
Scratch ==
    {[working_area_size |-> 0, algOk |-> FALSE, srcFails |-> 0]}
    \cup {[working_area_size |-> w, algOk |-> TRUE, srcFails |-> k] :
              w \in {0, 2056}, k \in 0..MaxSrcFails}

NoScratch == [working_area_size |-> 0, algOk |-> FALSE, srcFails |-> 0]

\* Values the target's flash and registers hold.
PartIds == {20992, 1}
Config0s == {0, 130}
Garbage == {0, 2}
RdVals == {0, 7}
IspAddrs == {0, NUMICRO_CONFIG0}
\* (offset, count) arguments of write, in bytes.
WriteArgs == {<<0, 0>>, <<4, 8>>, <<0, 260>>}

\* The host's buffer for a write of nwords words.
Buffer(nwords) == [i \in 1..nwords |-> 1000 + i]

Env(f, sc, partid, config0, garbage, rdval) ==
    [failAt |-> f.failAt, slowOp |-> f.slowOp, slowDelay |-> f.slowDelay,
     ffOp |-> f.ffOp, lockStuck |-> f.lockStuck, trgBits |-> f.trgBits,
     working_area_size |-> sc.working_area_size,
     algOk |-> sc.algOk, srcFails |-> sc.srcFails,
     partid |-> partid, config0 |-> config0, config1 |-> 0,
     garbage |-> garbage, rdval |-> rdval]

NoEnv == Env(NoFault, NoScratch, 0, 0, 0, 0)

Idle ==
    [op |-> "none", args |-> <<>>, ret |-> ERROR_OK, val |-> 0,
     halted |-> FALSE, busy0 |-> 0, bank0 |-> <<>>, bank1 |-> <<>>,
     log |-> <<>>, ops |-> <<>>, fmc |-> <<>>, runs |-> <<>>, areas |-> {},
     fellback |-> FALSE, blockret |-> "none", buf |-> <<>>, env |-> NoEnv]

\* The machine at the entry of a call.
Begin(env, buf) ==
    [halted |-> target.halted, busy |-> target.busy, wrprot |-> target.wrprot,
     ahbclk |-> target.ahbclk, ispcon |-> target.ispcon, cheat |-> target.cheat,
     keypos |-> 0, ispadr |-> 0, ispdat |-> 0, ispcmd |-> 0,
     bank |-> bank, env |-> env, buf |-> buf,
     n |-> 0, log |-> <<>>, ops |-> <<>>, fmc |-> <<>>, runs |-> <<>>,
     areas |-> {}, ram |-> [write_algorithm |-> <<>>, source |-> <<>>],
     srcTries |-> 0, hung |-> FALSE, fellback |-> FALSE, blockret |-> "none",
     ret |-> ERROR_OK, val |-> 0, retval |-> ERROR_OK,
     exit |-> "run", timeout |-> 0, i |-> 0,
     r0 |-> "source", r1 |-> 0, r2 |-> 0, r3 |-> 0,
     buffer_size |-> 0, bp |-> 0, address |-> 0, count |-> 0]

\* The call returned with machine m.  An operation that is merely slow has
\* completed by the next call; a stuck controller stays stuck.
Finish(m, op, args) ==
    /\ target' = [halted |-> m.halted,
                  busy |-> IF m.busy = Stuck THEN Stuck ELSE 0,
                  wrprot |-> m.wrprot, ahbclk |-> m.ahbclk,
                  ispcon |-> m.ispcon, cheat |-> m.cheat]
    /\ bank' = m.bank
    /\ call' = [op |-> op, args |-> args, ret |-> m.ret, val |-> m.val,
                halted |-> target.halted, busy0 |-> target.busy,
                bank0 |-> bank, bank1 |-> m.bank,
                log |-> m.log, ops |-> m.ops, fmc |-> m.fmc, runs |-> m.runs,
                areas |-> m.areas, fellback |-> m.fellback,
                blockret |-> m.blockret, buf |-> m.buf, env |-> m.env]

ResetTarget ==
    [halted |-> FALSE, busy |-> 0, wrprot |-> 0, ahbclk |-> 0, ispcon |-> 0,
     cheat |-> 0]

Init ==
    /\ target = ResetTarget
    /\ bank = [base |-> NUMICRO_LDROM_BASE, size |-> 0, num_sectors |-> 0,
               sectors |-> <<>>, probed |-> FALSE, cpu |-> "none"]
    /\ call = Idle

Ready == call.op = "none"

Probe ==
    /\ Ready
    /\ \E k \in 0..1, id \in PartIds :
          Finish(numicro_probe(Begin(Env([NoFault EXCEPT !.failAt = k],
                                         NoScratch, id, 0, 0, 0), <<>>)),
                 "probe", <<>>)

AutoProbe ==
    /\ Ready
    /\ \E k \in 0..1, id \in PartIds :
          Finish(numicro_auto_probe(Begin(Env([NoFault EXCEPT !.failAt = k],
                                              NoScratch, id, 0, 0, 0), <<>>)),
                 "auto_probe", <<>>)

\* The flash layer probes a bank before it uses it.
ProtectCheck ==
    /\ Ready /\ bank.probed
    /\ \E f \in Faults, c \in Config0s, g \in Garbage :
          Finish(numicro_protect_check(Begin(Env(f, NoScratch, 0, c, g, 0), <<>>)),
                 "protect_check", <<>>)

Erase ==
    /\ Ready /\ bank.probed
    /\ \E f \in Faults, first \in 0..MaxSector, last \in 0..MaxSector :
          /\ first <= last /\ last < bank.num_sectors
          /\ Finish(numicro_erase(Begin(Env(f, NoScratch, 0, 0, 0, 0), <<>>),
                                  first, last),
                    "erase", <<first, last>>)

Write ==
    /\ Ready /\ bank.probed
    /\ \E f \in Faults, sc \in Scratch, a \in WriteArgs :
          /\ a[1] + a[2] <= bank.size
          /\ Finish(numicro_write(Begin(Env(f, sc, 0, 0, 0, 0), Buffer(a[2] \div 4)),
                                  a[1], a[2]),
                    "write", a)

ReadIsp ==
    /\ Ready
    /\ \E f \in Faults, a \in IspAddrs, v \in RdVals :
          Finish(numicro_handle_read_isp_command(
                     Begin(Env(f, NoScratch, 0, v, 0, v), <<>>), a),
                 "read_isp", <<a>>)

WriteIsp ==
    /\ Ready
    /\ \E f \in Faults, a \in IspAddrs, v \in RdVals :
          Finish(numicro_handle_write_isp_command(
                     Begin(Env(f, NoScratch, 0, 0, 0, 0), <<>>), a, v),
                 "write_isp", <<a, v>>)

ChipErase ==
    /\ Ready
    /\ \E f \in Faults :
          Finish(numicro_handle_chip_erase_command(
                     Begin(Env(f, NoScratch, 0, 0, 0, 0), <<>>)),
                 "chip_erase", <<>>)

\* The call's result has been taken; the next command may be given.
Return ==
    /\ ~Ready
    /\ call' = Idle
    /\ UNCHANGED <<target, bank>>

Halt ==
    /\ Ready /\ ~target.halted
    /\ target' = [target EXCEPT !.halted = TRUE]
    /\ UNCHANGED <<bank, call>>

Resume ==
    /\ Ready /\ target.halted
    /\ target' = [target EXCEPT !.halted = FALSE]
    /\ UNCHANGED <<bank, call>>

\* A reset of the chip: registers at their reset values, the core running.
TargetReset ==
    /\ Ready /\ target # ResetTarget
    /\ target' = ResetTarget
    /\ UNCHANGED <<bank, call>>

Next ==
    \/ Probe \/ AutoProbe \/ ProtectCheck \/ Erase \/ Write
    \/ ReadIsp \/ WriteIsp \/ ChipErase
    \/ Return \/ Halt \/ Resume \/ TargetReset

Spec == Init /\ [][Next]_vars

(***************************************************************************)
(* Probing alone, for banks configured at each of the four region bases    *)
(* and at a base no part has, and for part IDs of three catalog entries    *)
(* and one the catalog lacks.                                              *)
(***************************************************************************)
UnmatchedBase == 4096
BankBases ==
    {NUMICRO_APROM_BASE, NUMICRO_DATA_BASE, NUMICRO_LDROM_BASE,
     NUMICRO_CONFIG_BASE, UnmatchedBase}
CatalogIds == {20992, 268578823, 0, 1}

InitProbe ==
    /\ target = ResetTarget
    /\ \E b \in BankBases :
          bank = [base |-> b, size |-> 0, num_sectors |-> 0,
                  sectors |-> <<>>, probed |-> FALSE, cpu |-> "none"]
    /\ call = Idle

ProbePart ==
    /\ Ready
    /\ \E k \in 0..1, id \in CatalogIds :
          Finish(numicro_probe(Begin(Env([NoFault EXCEPT !.failAt = k],
                                         NoScratch, id, 0, 0, 0), <<>>)),
                 "probe", <<>>)

AutoProbePart ==
    /\ Ready
    /\ \E k \in 0..1, id \in CatalogIds :
          Finish(numicro_auto_probe(Begin(Env([NoFault EXCEPT !.failAt = k],
                                              NoScratch, id, 0, 0, 0), <<>>)),
                 "auto_probe", <<>>)

NextProbe == ProbePart \/ AutoProbePart \/ Return

SpecProbe == InitProbe /\ [][NextProbe]_vars

(***************************************************************************)
(* The session initialisation alone, on a target whose registers hold      *)
(* what the firmware or an earlier session left in them.                   *)
(***************************************************************************)
\* Register values at attach: bit 3 of AHBCLK and bit 1 of ISPCON are bits
\* the driver does not set.
AhbclkVals == {0, 4, 8, 60}
IspconVals == {0, 2, 64, 123}

\* Faults that fail no host access.
QuietFaults == {NoFault, [NoFault EXCEPT !.lockStuck = TRUE]}

InitInit ==
    /\ target \in [halted : BOOLEAN, busy : {0}, wrprot : {0, 1},
                   ahbclk : AhbclkVals, ispcon : IspconVals, cheat : {0, 1}]
    /\ bank = [base |-> NUMICRO_LDROM_BASE, size |-> 0, num_sectors |-> 0,
               sectors |-> <<>>, probed |-> FALSE, cpu |-> "none"]
    /\ call = Idle

\* The four registers numicro_init_isp stores to.
Regs(m) == <<m.wrprot, m.ahbclk, m.ispcon, m.cheat>>

\* The machine at the entry of the next call, on the target m has left.
Reenter(m) == [m EXCEPT !.n = 0, !.log = <<>>, !.ret = ERROR_OK, !.val = 0]

InitOnce(f) == numicro_init_isp(Begin(Env(f, NoScratch, 0, 0, 0, 0), <<>>))

\* One session initialisation.
InitIsp ==
    /\ Ready
    /\ \E f \in QuietFaults \cup {[NoFault EXCEPT !.failAt = k] : k \in 1..10} :
          Finish(InitOnce(f), "init_isp", <<>>)

\* Two session initialisations in a row; the registers the first has left
\* are kept as the call's arguments.
InitIspAgain ==
    /\ Ready
    /\ \E f \in QuietFaults :
          Finish(numicro_init_isp(Reenter(InitOnce(f))), "init_isp_twice",
                 Regs(InitOnce(f)))

NextInit == InitIsp \/ InitIspAgain \/ Return

SpecInit == InitInit /\ [][NextInit]_vars

(***************************************************************************)
(* numicro_writeblock alone, called as numicro_write calls it: on a halted *)
(* target with the session initialised, the write command in ISPCMD and    *)
(* the bank probed.  offset is in bytes, count in words.                   *)
(***************************************************************************)
\* The registers after numicro_init_isp on a target out of reset.
SessionTarget ==
    [halted |-> TRUE, busy |-> 0, wrprot |-> 1,
     ahbclk |-> AHBCLK_ISP_EN + AHBCLK_SRAM_EN + AHBCLK_TICK_EN,
     ispcon |-> ISPCON_LDUEN + ISPCON_APUEN + ISPCON_CFGUEN + ISPCON_ISPEN,
     cheat |-> 1]

\* The program flash of M052LAN, probed.
ProbedAprom ==
    probe_sectors([ret |-> ERROR_OK,
                   bank |-> [base |-> NUMICRO_APROM_BASE, size |-> 0,
                             num_sectors |-> 0, sectors |-> <<>>,
                             probed |-> FALSE, cpu |-> "none"]],
                  numicro_parts[1], 8 * 1024).bank

InitBlock ==
    /\ target = SessionTarget
    /\ bank = ProbedAprom
    /\ call = Idle

\* Scratch memory: working areas of 0, 2056 and 8192 bytes give first
\* requests of 1024, 1028 and 4096 bytes.
BlockScratch ==
    {[working_area_size |-> 0, algOk |-> FALSE, srcFails |-> 0]}
    \cup {[working_area_size |-> w, algOk |-> TRUE, srcFails |-> k] :
              w \in {0, 2056, 8192}, k \in 0..MaxSrcFails}

\* (offset, count) arguments of numicro_writeblock.
BlockArgs ==
    {<<0, 0>>, <<1, 2>>, <<2, 1>>, <<3, 0>>, <<4, 64>>, <<0, 65>>, <<0, 130>>,
     <<0, 300>>}

\* The machine at the entry of numicro_writeblock (numicro.c:896, 905).
BlockEntry(env, buf) == [Begin(env, buf) EXCEPT !.ispcmd = ISPCMD_WRITE]

WriteBlock ==
    /\ Ready
    /\ \E f \in Faults, sc \in BlockScratch, a \in BlockArgs :
          Finish(numicro_writeblock(BlockEntry(Env(f, sc, 0, 0, 0, 0), Buffer(a[2])),
                                    a[1], a[2]),
                 "writeblock", a)

NextBlock == WriteBlock \/ Return

SpecBlock == InitBlock /\ [][NextBlock]_vars

(***************************************************************************)
(* The two poll loops side by side: the one of numicro_fmc_cmd and the one *)
(* of the per-word loop of numicro_write, each run after a store of GO on  *)
(* the same target, whose trigger register reads GO for d polls (for ever  *)
(* when d is Stuck) beside the bits r.                                     *)
(***************************************************************************)
MaxPollDelay == 102
PollDelays == 0..MaxPollDelay \cup {Stuck}
\* Bits of the trigger register other than GO.
TrgBits == {0, 2}

InitPoll ==
    /\ target = SessionTarget
    /\ bank = ProbedAprom
    /\ call = Idle

\* The machine after the store of GO.
PollEntry(d, r) ==
    target_write_u32(
        Begin(Env([NoFault EXCEPT !.slowOp = 1, !.slowDelay = d, !.trgBits = r],
                  NoScratch, 0, 0, 0, 0), <<>>),
        NUMICRO_FLASH_ISPTRG, ISPTRG_ISPGO)

\* numicro.c:580-594
FmcPoll(d, r) ==
    Loop(fmc_poll_iter, [PollEntry(d, r) EXCEPT !.timeout = FMC_TIMEOUT])

\* numicro.c:929-943
FallbackPoll(d, r) ==
    Loop(write_poll_iter, [PollEntry(d, r) EXCEPT !.timeout = WRITE_TIMEOUT])

\* How a poll loop ended: by its break, or by returning an error.
PollOutcome(m) == IF m.exit = "break" THEN "complete" ELSE m.ret

\* The reads of the trigger register a poll loop made.
PollCount(m) == Len(m.log) - 1

\* Both loops are run; the call's arguments keep d, r and the outcome and
\* number of polls of each.
Poll ==
    /\ Ready
    /\ \E d \in PollDelays, r \in TrgBits :
          call' = [Idle EXCEPT
                      !.op = "poll",
                      !.args = <<d, r,
                                 PollOutcome(FmcPoll(d, r)),
                                 PollCount(FmcPoll(d, r)),
                                 PollOutcome(FallbackPoll(d, r)),
                                 PollCount(FallbackPoll(d, r))>>,
                      !.log = FallbackPoll(d, r).log]
    /\ UNCHANGED <<target, bank>>

NextPoll == Poll \/ Return

SpecPoll == InitPoll /\ [][NextPoll]_vars

(***************************************************************************)
(* numicro_erase alone, on a halted target with the bank probed, also on a *)
(* part whose trigger register reads a bit other than GO.                  *)
(***************************************************************************)
EraseFaults == Faults \cup {[NoFault EXCEPT !.trgBits = 2]}

InitErase ==
    /\ target = SessionTarget
    /\ bank = ProbedAprom
    /\ call = Idle

EraseSectors ==
    /\ Ready
    /\ \E f \in EraseFaults, first \in 0..MaxSector, last \in 0..MaxSector :
          /\ first <= last /\ last < bank.num_sectors
          /\ Finish(numicro_erase(Begin(Env(f, NoScratch, 0, 0, 0, 0), <<>>),
                                  first, last),
                    "erase", <<first, last>>)

NextErase == EraseSectors \/ Return

SpecErase == InitErase /\ [][NextErase]_vars

(***************************************************************************)
(* Probing, protect_check and erase on a halted target, for banks          *)
(* configured at each region base, the regions smaller than a sector       *)
(* among them.                                                             *)
(***************************************************************************)
InitRegions ==
    /\ target = SessionTarget
    /\ \E b \in BankBases :
          bank = [base |-> b, size |-> 0, num_sectors |-> 0,
                  sectors |-> <<>>, probed |-> FALSE, cpu |-> "none"]
    /\ call = Idle

NextRegions == ProbePart \/ ProtectCheck \/ Erase \/ Return

SpecRegions == InitRegions /\ [][NextRegions]_vars

(***************************************************************************)
(* Properties.  They are stated over call, the record of the driver call   *)
(* that has just returned: its arguments, the target's state at its entry, *)
(* its trace of host accesses (log), the operations the controller was     *)
(* given (ops) and the invocations of numicro_fmc_cmd (fmc).               *)
(***************************************************************************)
IsW(e, addr) == e.op = "W" /\ e.addr = addr
IsR(e, addr) == e.op = "R" /\ e.addr = addr

\* The host accesses of invocation e of numicro_fmc_cmd.
FmcLog(e) == SubSeq(call.log, e.from + 1, e.to)

\* The number of polls of the trigger register in a trace.
Polls(L) == Cardinality({k \in 1..Len(L) : IsR(L[k], NUMICRO_FLASH_ISPTRG)})

\* A poll that has seen the GO bit clear.
SawGoClear(e) ==
    IsR(e, NUMICRO_FLASH_ISPTRG) /\ e.ok /\ BitAnd(e.val, ISPTRG_ISPGO) = 0

\* The four stores that start a command, in the order of the protocol.
FmcStores(e) ==
    << [addr |-> NUMICRO_FLASH_ISPCMD, val |-> e.cmd],
       [addr |-> NUMICRO_FLASH_ISPDAT, val |-> e.wdata],
       [addr |-> NUMICRO_FLASH_ISPADR, val |-> e.addr],
       [addr |-> NUMICRO_FLASH_ISPTRG, val |-> ISPTRG_ISPGO] >>

FmcOrdered(e) ==
    LET L == FmcLog(e) IN
    /\ Len(L) >= 1
    /\ \A k \in 1..Len(L) :
          /\ k <= 4 => IsW(L[k], FmcStores(e)[k].addr) /\ L[k].val = FmcStores(e)[k].val
          /\ k > 4 => L[k].op = "R"
          /\ (k > 4 /\ k < Len(L)) => IsR(L[k], NUMICRO_FLASH_ISPTRG)
          /\ ~L[k].ok => k = Len(L)
          /\ IsR(L[k], NUMICRO_FLASH_ISPDAT) =>
                k = Len(L) /\ k > 5 /\ SawGoClear(L[k - 1])
    /\ e.ret = ERROR_OK =>
          /\ IsR(L[Len(L)], NUMICRO_FLASH_ISPDAT) /\ L[Len(L)].ok
          /\ e.rdata = L[Len(L)].val

\* C1: in every invocation of numicro_fmc_cmd the accesses are, in this
\* order, ISPCMD <- command, ISPDAT <- write data, ISPADR <- address,
\* ISPTRG <- GO, polls of ISPTRG; ISPDAT is read back only directly after a
\* poll that saw GO clear, and the value returned is the value of that read.
C1_FmcOrder == \A j \in 1..Len(call.fmc) : FmcOrdered(call.fmc[j])

\* A read_isp that succeeded after more than one poll and returned the
\* flash word 7.
C1_Witness ==
    /\ call.op = "read_isp" /\ call.ret = ERROR_OK /\ Len(call.fmc) = 1
    /\ call.fmc[1].rdata = 7 /\ Polls(FmcLog(call.fmc[1])) > 1

FmcBounded(e, maxPolls) ==
    LET L == FmcLog(e) IN
    /\ Polls(L) <= maxPolls
    /\ e.ret = ERROR_FAIL =>
          /\ \A k \in 1..Len(L) : ~IsR(L[k], NUMICRO_FLASH_ISPDAT)
          /\ \A k \in 1..Len(L) : ~SawGoClear(L[k])
    /\ e.ret = ERROR_OK => \E k \in 1..Len(L) : SawGoClear(L[k])

\* C2 (as amended): numicro_fmc_cmd polls ISPTRG at most 101 times (one
\* poll and 100 retries); when GO stays set it returns ERROR_FAIL after
\* exactly 101 polls without reading ISPDAT back, and it returns ERROR_OK
\* only if a poll saw GO clear.
C2_FmcBounded ==
    \A j \in 1..Len(call.fmc) :
        /\ FmcBounded(call.fmc[j], FMC_TIMEOUT + 1)
        /\ call.fmc[j].ret = ERROR_FAIL =>
              Polls(FmcLog(call.fmc[j])) = FMC_TIMEOUT + 1

\* C2 as stated: at most 100 polls.
C2_AsStated == \A j \in 1..Len(call.fmc) : FmcBounded(call.fmc[j], FMC_TIMEOUT)

\* A command that timed out on a controller that stays busy.
C2_Witness ==
    /\ call.op = "chip_erase" /\ call.ret = ERROR_FAIL /\ Len(call.fmc) = 1
    /\ Polls(FmcLog(call.fmc[1])) = FMC_TIMEOUT + 1

FlashCommands ==
    {"erase", "write", "protect_check", "read_isp", "write_isp", "chip_erase"}

\* C3: erase, write, protect_check, read_isp, write_isp and chip_erase
\* called while the CPU is not halted return ERROR_TARGET_NOT_HALTED and
\* have stored to no register.
C3_NotHalted ==
    (call.op \in FlashCommands /\ ~call.halted) =>
        /\ call.ret = ERROR_TARGET_NOT_HALTED
        /\ \A k \in 1..Len(call.log) : call.log[k].op # "W"
        /\ call.ops = <<>>

\* write_isp was called on a probed bank while the CPU was running.
C3_Witness ==
    /\ call.op = "write_isp" /\ ~call.halted
    /\ call.ret = ERROR_TARGET_NOT_HALTED /\ bank.probed

\* C4: GO is never written to ISPTRG while the operation triggered before
\* has not been seen complete.
C4_OneInFlight == \A k \in 1..Len(call.ops) : ~call.ops[k].overlap

\* The environment left the call to the driver: no host access failed and
\* every controller operation completed within the poll bound.
Cooperative ==
    /\ call.halted /\ call.busy0 = 0
    /\ call.env.failAt = 0
    /\ call.env.slowOp # 0 => call.env.slowDelay # Stuck

\* Scratch allocation failed: the routine area was refused, or the data
\* buffer was refused at every size that was requested.
AllocationFailed ==
    LET A == {k \in 1..Len(call.log) : call.log[k].op = "alloc"} IN
    \/ \E k \in A : call.log[k].addr = "write_algorithm" /\ ~call.log[k].ok
    \/ /\ \E k \in A : call.log[k].addr = "source"
       /\ \A k \in A : call.log[k].addr = "source" => ~call.log[k].ok

\* The programming operations of a write of call.buf at call.args:
\* word i of the buffer at base + offset + 4 i.
ProgramsBuffer ==
    /\ Len(call.ops) = call.args[2] \div 4
    /\ \A k \in 1..Len(call.ops) :
          /\ call.ops[k].cmd = ISPCMD_WRITE
          /\ call.ops[k].addr = call.bank0.base + call.args[1] + 4 * (k - 1)
          /\ call.ops[k].dat = call.buf[k]

\* C5: when scratch allocation fails and the environment cooperates, write
\* programs every word through the per-word loop and returns ERROR_OK.
C5_FallbackSucceeds ==
    (call.op = "write" /\ Cooperative /\ AllocationFailed) =>
        /\ call.ret = ERROR_OK
        /\ call.fellback
        /\ call.runs = <<>>
        /\ ProgramsBuffer

\* A write of 65 words whose data buffer was refused at every size, with
\* a slow second word.
C5_Witness ==
    /\ call.op = "write" /\ Cooperative /\ AllocationFailed
    /\ call.env.algOk /\ call.args = <<0, 260>> /\ call.env.slowOp = 2
    /\ call.ret = ERROR_OK

\* C6: when numicro_writeblock fails with anything but
\* ERROR_TARGET_RESOURCE_NOT_AVAILABLE, write returns that failure and
\* does not run the fallback.
C6_BlockFailurePropagates ==
    (call.op = "write"
     /\ call.blockret \notin {"none", ERROR_OK, ERROR_TARGET_RESOURCE_NOT_AVAILABLE}) =>
        /\ call.ret = call.blockret
        /\ ~call.fellback

\* C7: when numicro_writeblock has returned, no scratch area is allocated.
C7_ScratchReleased ==
    (call.op = "write" /\ call.blockret # "none") => call.areas = {}

\* C8: a successful write has given the controller exactly the programming
\* operations of its buffer, whichever path it took.
C8_PathsEquivalent ==
    (call.op = "write" /\ call.ret = ERROR_OK) => ProgramsBuffer

\* A read of ISPCON by the "check for failure" of write or erase (it comes
\* after the store of the command to ISPCMD) has seen ISPFF set.
FailureSeen ==
    \E k \in 1..Len(call.log) :
        /\ IsR(call.log[k], NUMICRO_FLASH_ISPCON) /\ call.log[k].ok
        /\ BitAnd(call.log[k].val, ISPCON_ISPFF) # 0
        /\ \E j \in 1..(k - 1) : IsW(call.log[j], NUMICRO_FLASH_ISPCMD)

\* C9: a write or erase that found the controller's failure flag set
\* returns a failure.
C9_FailureFlagFatal ==
    (call.op \in {"write", "erase"} /\ FailureSeen) => call.ret # ERROR_OK

\* C10: a successful erase(first, last) has triggered one erase for each
\* sector first..last, in ascending order, at base + offset of the sector,
\* and no other operation.
C10_EraseRange ==
    (call.op = "erase" /\ call.ret = ERROR_OK) =>
        LET first == call.args[1]
            last == call.args[2]
        IN  /\ Len(call.ops) = last - first + 1
            /\ \A k \in 1..Len(call.ops) :
                  /\ call.ops[k].cmd = ISPCMD_ERASE
                  /\ call.ops[k].addr =
                        call.bank0.base + call.bank0.sectors[first + k].offset
                  /\ call.ops[k].addr = call.bank0.base + 512 * (first + k - 1)

\* A successful erase of sectors 1..2.
C10_Witness ==
    /\ call.op = "erase" /\ call.ret = ERROR_OK /\ call.args = <<1, 2>>
    /\ Len(call.ops) = 2

\* C11: after a successful erase(first, last) every sector of the range
\* has its erased flag set (is_erased = 1).
C11_ErasedFlagSet ==
    (call.op = "erase" /\ call.ret = ERROR_OK) =>
        \A i \in call.args[1]..call.args[2] : call.bank1.sectors[i + 1].is_erased = 1

\* A poll that has read the trigger register as zero.
SawZero(e) == IsR(e, NUMICRO_FLASH_ISPTRG) /\ e.ok /\ e.val = 0

\* The controller operations of an erase are those of the sectors from
\* first on, in order, and no more than the range has.
ErasesPrefix ==
    /\ Len(call.ops) <= call.args[2] - call.args[1] + 1
    /\ \A k \in 1..Len(call.ops) :
          /\ call.ops[k].cmd = ISPCMD_ERASE
          /\ call.ops[k].addr =
                call.bank0.base + call.bank0.sectors[call.args[1] + k].offset

\* C12: an erase that fails at a sector returns the error at once: a failed
\* host access is the last access of the call and its error is returned;
\* after a GO store nothing is stored for a later sector unless a poll has
\* read the trigger register as zero; a timeout is returned after the 101
\* polls of the sector.  The operations given to the controller are those
\* of the sectors up to the failing one and the bank record is untouched.
C12_EraseAborts ==
    (call.op = "erase" /\ call.halted) =>
        /\ \A k \in 1..Len(call.log) :
              ~call.log[k].ok => k = Len(call.log) /\ call.ret = ERROR_HOST
        /\ \A g \in 1..Len(call.log) :
              IsW(call.log[g], NUMICRO_FLASH_ISPTRG) =>
                  \A k \in (g + 1)..Len(call.log) :
                      call.log[k].op = "W" =>
                          \E p \in (g + 1)..(k - 1) : SawZero(call.log[p])
        /\ call.ret = ERROR_FAIL =>
              /\ Len(call.log) > ERASE_TIMEOUT + 1
              /\ \A p \in (Len(call.log) - ERASE_TIMEOUT)..Len(call.log) :
                    IsR(call.log[p], NUMICRO_FLASH_ISPTRG) /\ ~SawZero(call.log[p])
        /\ call.ret # ERROR_OK =>
              /\ call.ret \in {ERROR_HOST, ERROR_FAIL}
              /\ call.bank1 = call.bank0
        /\ ErasesPrefix

\* erase(0, 2) timed out on its second sector, after the first was erased.
C12_Witness ==
    /\ call.op = "erase" /\ call.halted /\ call.args = <<0, 2>>
    /\ call.ret = ERROR_FAIL /\ Len(call.ops) = 2

\* The protected flag the lock bit of a configuration word stands for.
LockFlag(config0) == IF BitAnd(config0, CONFIG0_LOCK_MASK) = 0 THEN 1 ELSE 0

\* C13: after protect_check has completed, every sector is protected when
\* bit 1 of the device's first configuration word is clear and every sector
\* is unprotected when it is set.
C13_UniformProtection ==
    (call.op = "protect_check" /\ call.ret = ERROR_OK) =>
        \A j \in 1..call.bank1.num_sectors :
            call.bank1.sectors[j].is_protected = LockFlag(call.env.config0)

\* C14: when one of the two configuration reads of protect_check fails,
\* protect_check returns a failure and leaves the protected flags alone.
C14_ReadFailureSurfaces ==
    (call.op = "protect_check"
     /\ \E j \in 1..Len(call.fmc) : call.fmc[j].ret # ERROR_OK) =>
        /\ call.ret # ERROR_OK
        /\ call.bank1.sectors = call.bank0.sectors

\* The call looked the part up: a probe, or an auto-probe of a bank not yet
\* probed.
Probing ==
    \/ call.op = "probe"
    \/ call.op = "auto_probe" /\ ~call.bank0.probed

\* The part ID was read.
PartIdRead == Len(call.log) = 1 /\ call.log[1].ok

\* Entry i is the first of the catalog with the part ID read.
FirstWithId(i) ==
    /\ numicro_parts[i].partid = call.env.partid
    /\ \A j \in 1..(i - 1) : numicro_parts[j].partid # call.env.partid

\* Region r is the first of entry i whose base is the bank's.
FirstWithBase(i, r) ==
    /\ numicro_parts[i].bank[r].base = call.bank0.base
    /\ \A q \in 1..(r - 1) : numicro_parts[i].bank[q].base # call.bank0.base

\* The bank's geometry is that of region r of catalog entry i.
ResolvedTo(i, r) ==
    /\ FirstWithId(i) /\ FirstWithBase(i, r)
    /\ call.bank1.size = numicro_parts[i].bank[r].size
    /\ call.bank1.cpu = numicro_parts[i].partname

\* C15: the geometry is that of the first catalog entry whose part ID is
\* exactly the ID read and, of that entry, the first region whose base is
\* exactly the bank's base; when no entry has the ID, or no region of the
\* entry has the base, the probe fails with ERROR_FLASH_OPERATION_FAILED.
C15_ExactMatch ==
    (Probing /\ PartIdRead) =>
        /\ call.ret = ERROR_OK =>
              \E i \in 1..Len(numicro_parts) :
                  \E r \in 1..numicro_parts[i].n_banks : ResolvedTo(i, r)
        /\ call.ret # ERROR_OK =>
              /\ call.ret = ERROR_FLASH_OPERATION_FAILED
              /\ \A i \in 1..Len(numicro_parts) :
                    FirstWithId(i) =>
                        \A r \in 1..numicro_parts[i].n_banks :
                            numicro_parts[i].bank[r].base # call.bank0.base

\* A known part was probed at a base none of its regions has.
C15_Witness ==
    /\ Probing /\ PartIdRead
    /\ call.env.partid = 268578823 /\ call.bank0.base = UnmatchedBase
    /\ call.ret = ERROR_FLASH_OPERATION_FAILED

\* C16: after a successful probe the bank has size / 512 sectors, sector i
\* at offset 512 * i and of size 512, erased-unknown and unprotected; the
\* bank's size is the resolved region's size and the bank is probed.
C16_Geometry ==
    (Probing /\ call.ret = ERROR_OK) =>
        /\ call.bank1.probed
        /\ \E i \in 1..Len(numicro_parts) :
              \E r \in 1..numicro_parts[i].n_banks : ResolvedTo(i, r)
        /\ call.bank1.num_sectors = call.bank1.size \div 512
        /\ Len(call.bank1.sectors) = call.bank1.num_sectors
        /\ \A i \in 0..(call.bank1.num_sectors - 1) :
              /\ call.bank1.sectors[i + 1].offset = 512 * i
              /\ call.bank1.sectors[i + 1].size = 512
              /\ call.bank1.sectors[i + 1].is_erased = 0 - 1
              /\ call.bank1.sectors[i + 1].is_protected = 0

\* The 32768-byte program flash of NUC230LC2AE probed as 64 sectors.
C16_Witness ==
    /\ Probing /\ call.ret = ERROR_OK
    /\ call.bank1.size = 32768 /\ call.bank1.num_sectors = 64
    /\ call.bank1.sectors[64].offset = 32256

\* The machine at the entry of the call that has just returned; probing
\* only reads the target.
AtEntry == [Begin(call.env, <<>>) EXCEPT !.bank = call.bank0]

\* C17: auto_probe of a probed bank returns success, reads nothing from the
\* target and leaves the bank as it was; of a bank not probed it does what
\* probe does.
C17_Memoized ==
    call.op = "auto_probe" =>
        IF call.bank0.probed
        THEN call.ret = ERROR_OK /\ call.log = <<>> /\ call.bank1 = call.bank0
        ELSE /\ call.ret = numicro_probe(AtEntry).ret
             /\ call.bank1 = numicro_probe(AtEntry).bank
             /\ call.log = numicro_probe(AtEntry).log
             /\ Len(call.log) = 1 /\ IsR(call.log[1], NUMICRO_SYS_BASE)

\* auto_probe of a probed bank, on a target whose part ID could not have
\* been read.
C17_Witness ==
    /\ call.op = "auto_probe" /\ call.bank0.probed
    /\ call.env.failAt = 1 /\ call.ret = ERROR_OK

\* C18: a probe that fails leaves the bank as it was, not probed if it was
\* not, and an auto_probe of a bank not probed reads the part ID again.
C18_FailedProbe ==
    /\ (call.op \in {"probe", "auto_probe"} /\ call.ret # ERROR_OK) =>
          /\ call.bank1 = call.bank0
          /\ bank = call.bank0
    /\ (call.op = "auto_probe" /\ ~bank.probed) =>
          /\ Len(call.log) = 1 /\ IsR(call.log[1], NUMICRO_SYS_BASE)
          /\ call.ret # ERROR_OK

\* An auto_probe failed on a part the catalog lacks and left the bank not
\* probed.
C18_Witness ==
    /\ call.op = "auto_probe" /\ call.ret = ERROR_FLASH_OPERATION_FAILED
    /\ PartIdRead /\ call.env.partid = 1
    /\ ~bank.probed /\ bank = call.bank0

\* The registers through which the flash controller is commanded.
IspRegs ==
    {NUMICRO_FLASH_ISPCMD, NUMICRO_FLASH_ISPADR, NUMICRO_FLASH_ISPDAT,
     NUMICRO_FLASH_ISPTRG}

\* The lock register was read as locked at the start of the call.
ReadLocked ==
    Len(call.log) >= 1 /\ call.log[1].ok /\ call.log[1].val = 0

\* Number of host accesses numicro_reg_unlock makes when none fails.
UnlockLen == IF ReadLocked THEN 5 ELSE 2

\* The accesses numicro_reg_unlock makes when none fails; val is given for
\* the stores.
UnlockSeq ==
    IF ReadLocked
    THEN << [op |-> "R", addr |-> NUMICRO_SYS_WRPROT, val |-> 0],
            [op |-> "W", addr |-> NUMICRO_SYS_WRPROT, val |-> REG_KEY1],
            [op |-> "W", addr |-> NUMICRO_SYS_WRPROT, val |-> REG_KEY2],
            [op |-> "W", addr |-> NUMICRO_SYS_WRPROT, val |-> REG_KEY3],
            [op |-> "R", addr |-> NUMICRO_SYS_WRPROT, val |-> 0] >>
    ELSE << [op |-> "R", addr |-> NUMICRO_SYS_WRPROT, val |-> 0],
            [op |-> "R", addr |-> NUMICRO_SYS_WRPROT, val |-> 0] >>

\* Access k of the call is access k of numicro_reg_unlock.
UnlockStep(k) ==
    /\ call.log[k].op = UnlockSeq[k].op
    /\ call.log[k].addr = UnlockSeq[k].addr
    /\ call.log[k].op = "W" => call.log[k].val = UnlockSeq[k].val

\* The unlock made all its accesses and none failed.
UnlockDone ==
    /\ Len(call.log) >= UnlockLen
    /\ \A k \in 1..UnlockLen : call.log[k].ok /\ UnlockStep(k)

\* The five accesses of numicro_init_isp after the unlock: clock enable,
\* ISP enable, the store to the undocumented register.
EnableDone ==
    /\ Len(call.log) >= UnlockLen + 5
    /\ \A k \in (UnlockLen + 1)..(UnlockLen + 5) : call.log[k].ok
    /\ IsR(call.log[UnlockLen + 1], NUMICRO_SYSCLK_AHBCLK)
    /\ IsW(call.log[UnlockLen + 2], NUMICRO_SYSCLK_AHBCLK)
    /\ call.log[UnlockLen + 2].val =
          BitOr(call.log[UnlockLen + 1].val,
                AHBCLK_ISP_EN + AHBCLK_SRAM_EN + AHBCLK_TICK_EN)
    /\ IsR(call.log[UnlockLen + 3], NUMICRO_FLASH_ISPCON)
    /\ IsW(call.log[UnlockLen + 4], NUMICRO_FLASH_ISPCON)
    /\ BitAnd(call.log[UnlockLen + 4].val, ISPCON_ISPEN) # 0
    /\ IsW(call.log[UnlockLen + 5], NUMICRO_FLASH_CHEAT)
    /\ call.log[UnlockLen + 5].val = 1

InitDone == UnlockDone /\ EnableDone

\* C19: in erase, write, protect_check, read_isp, write_isp and chip_erase
\* every store to ISPCMD, ISPADR, ISPDAT or ISPTRG comes after the
\* initialisation (unlock, clock enable, ISP enable, store to the
\* undocumented register, in that order) has been made without a failure in
\* the same call; when the initialisation fails the call returns its error,
\* has made no such store and has given the controller no operation.
C19_InitFirst ==
    call.op \in FlashCommands =>
        /\ \A k \in 1..Len(call.log) :
              (call.log[k].op = "W" /\ call.log[k].addr \in IspRegs) =>
                  InitDone /\ k > UnlockLen + 5
        /\ call.ops # <<>> => InitDone
        /\ ~InitDone =>
              /\ call.ret = IF call.halted THEN ERROR_HOST
                            ELSE ERROR_TARGET_NOT_HALTED
              /\ call.halted =>
                    /\ call.log # <<>> /\ ~call.log[Len(call.log)].ok
                    /\ Len(call.log) <= UnlockLen + 5
              /\ ~call.halted => call.log = <<>>

\* An erase whose store to the undocumented register failed.
C19_Witness ==
    /\ call.op = "erase" /\ call.halted /\ ReadLocked
    /\ Len(call.log) = 10 /\ IsW(call.log[10], NUMICRO_FLASH_CHEAT)
    /\ ~call.log[10].ok /\ call.ret = ERROR_HOST

\* C20: the unlock stores the keys 0x59, 0x16, 0x88 to the lock register,
\* in that order and once each, exactly when its first read of the register
\* returned 0; it then reads the register again and succeeds whatever that
\* read returns, the call going on to the clock enable; only a failed host
\* access makes it fail, and that access is the call's last.
C20_Unlock ==
    (call.op \in FlashCommands /\ call.halted) =>
        /\ Len(call.log) >= 1
        /\ \A k \in 1..Len(call.log) :
              /\ k <= UnlockLen => UnlockStep(k)
              /\ IsW(call.log[k], NUMICRO_SYS_WRPROT) => ReadLocked /\ k \in 2..4
              /\ (k <= UnlockLen /\ ~call.log[k].ok) =>
                    k = Len(call.log) /\ call.ret = ERROR_HOST
        /\ Len(call.log) < UnlockLen => ~call.log[Len(call.log)].ok
        /\ UnlockDone =>
              /\ Len(call.log) > UnlockLen
              /\ IsR(call.log[UnlockLen + 1], NUMICRO_SYSCLK_AHBCLK)

\* The keys were stored, the second read still returned 0, and the call
\* went on and succeeded.
C20_Witness ==
    /\ call.op \in FlashCommands /\ call.halted
    /\ ReadLocked /\ UnlockDone
    /\ call.log[5].val = 0
    /\ call.ret = ERROR_OK

\* C21: on a halted target with the host's accesses succeeding, two session
\* initialisations in a row leave the lock, clock-control, flash-control and
\* auxiliary registers as one does; the driver keeps no record of the first:
\* the bank record is untouched and the second makes every access again.
C21_InitIdempotent ==
    (call.op = "init_isp_twice" /\ call.halted) =>
        /\ call.ret = ERROR_OK
        /\ <<target.wrprot, target.ahbclk, target.ispcon, target.cheat>> = call.args
        /\ call.bank1 = call.bank0
        /\ InitDone

\* The second initialisation found the registers unlocked by the first and
\* the clock gates already set beside a bit that is not the driver's.
C21_Witness ==
    /\ call.op = "init_isp_twice" /\ call.halted /\ call.ret = ERROR_OK
    /\ ~ReadLocked /\ call.log[1].val = 1
    /\ call.log[3].val = 60 /\ target.ahbclk = 60

ClockGates == AHBCLK_ISP_EN + AHBCLK_SRAM_EN + AHBCLK_TICK_EN
IspBits ==
    ISPCON_ISPFF + ISPCON_LDUEN + ISPCON_APUEN + ISPCON_CFGUEN + ISPCON_ISPEN

\* Access k stores to the register at addr the value that the access
\* before it read there, with the bits of mask set and no other bit changed.
ReadModifyWrite(k, addr, mask) ==
    /\ k > 1 /\ IsR(call.log[k - 1], addr) /\ call.log[k - 1].ok
    /\ call.log[k].val = BitOr(call.log[k - 1].val, mask)
    /\ BitAnd(call.log[k].val, mask) = mask
    /\ BitClear(call.log[k].val, mask) = BitClear(call.log[k - 1].val, mask)

\* C22: the session initialisation stores to the clock-control register the
\* value it has just read from it OR-ed with the three clock-gate bits, and
\* to the flash-control register the value just read OR-ed with the five
\* bits ISPFF, LDUEN, APUEN, CFGUEN, ISPEN; it stores to each once at most.
C22_ReadModifyWrite ==
    call.op \in {"init_isp", "init_isp_twice"} =>
        /\ \A k \in 1..Len(call.log) :
              /\ IsW(call.log[k], NUMICRO_SYSCLK_AHBCLK) =>
                    ReadModifyWrite(k, NUMICRO_SYSCLK_AHBCLK, ClockGates)
              /\ IsW(call.log[k], NUMICRO_FLASH_ISPCON) =>
                    ReadModifyWrite(k, NUMICRO_FLASH_ISPCON, IspBits)
        /\ Cardinality({k \in 1..Len(call.log) :
                           IsW(call.log[k], NUMICRO_SYSCLK_AHBCLK)}) <= 1
        /\ Cardinality({k \in 1..Len(call.log) :
                           IsW(call.log[k], NUMICRO_FLASH_ISPCON)}) <= 1

\* Both registers held a bit that is not the driver's, and kept it.
C22_Witness ==
    /\ call.op = "init_isp" /\ call.ret = ERROR_OK /\ InitDone
    /\ call.log[UnlockLen + 1].val = 8 /\ call.log[UnlockLen + 2].val = 60
    /\ call.log[UnlockLen + 3].val = 2 /\ call.log[UnlockLen + 4].val = 123

\* C23: numicro_writeblock called with an odd offset returns
\* ERROR_FLASH_DST_BREAKS_ALIGNMENT having requested no working area,
\* uploaded nothing and made no access to the target; with an even offset
\* it does not return that error.
C23_AlignmentFirst ==
    call.op = "writeblock" =>
        IF call.args[1] % 2 = 1
        THEN /\ call.ret = ERROR_FLASH_DST_BREAKS_ALIGNMENT
             /\ call.log = <<>> /\ call.runs = <<>> /\ call.ops = <<>>
             /\ call.areas = {}
        ELSE call.ret # ERROR_FLASH_DST_BREAKS_ALIGNMENT

\* Offset 1 was refused although scratch memory was to be had.
C23_Witness ==
    /\ call.op = "writeblock" /\ call.args = <<1, 2>>
    /\ call.env.algOk /\ call.env.srcFails = 0
    /\ call.ret = ERROR_FLASH_DST_BREAKS_ALIGNMENT /\ call.log = <<>>

\* A request for the data buffer, granted or refused.
IsSourceRequest(e) == e.op = "alloc" /\ e.addr = "source"

\* The sizes of the data buffer requested by the call, in order, and
\* whether the last request was refused.
SourceRequests == SelectSeq(call.log, IsSourceRequest)
LastRefused == SourceRequests # <<>> /\ ~SourceRequests[Len(SourceRequests)].ok

\* The size of the first request: 1024 bytes or half the working area.
FirstRequest ==
    IF 1024 < call.env.working_area_size \div 2
    THEN call.env.working_area_size \div 2 ELSE 1024

\* C24 as amended: the first request is for max(1024, working_area_size / 2)
\* bytes; each later request follows a refused one and is for a quarter of
\* its size; every request is for more than 256 bytes; the call gives up,
\* with ERROR_TARGET_RESOURCE_NOT_AVAILABLE and the routine's area freed,
\* exactly when a quarter of the size just refused is 256 bytes or less.
C24_QuarterAbove256 ==
    call.op = "writeblock" =>
        /\ \A k \in 1..Len(SourceRequests) :
              /\ SourceRequests[k].val > 256
              /\ SourceRequests[k].val =
                    IF k = 1 THEN FirstRequest
                    ELSE SourceRequests[k - 1].val \div 4
              /\ k < Len(SourceRequests) => ~SourceRequests[k].ok
        /\ LastRefused =>
              /\ SourceRequests[Len(SourceRequests)].val \div 4 <= 256
              /\ call.ret = ERROR_TARGET_RESOURCE_NOT_AVAILABLE
              /\ call.areas = {} /\ call.runs = <<>>

\* C24 as stated: the call gives up only after a request for the floor size
\* of 256 bytes has been refused.
C24_AsStated ==
    (call.op = "writeblock" /\ LastRefused) =>
        SourceRequests[Len(SourceRequests)].val = 256

\* Requests for 4096 and 1024 bytes were refused and the call gave up.
C24_Witness ==
    /\ call.op = "writeblock" /\ LastRefused
    /\ Len(SourceRequests) = 2
    /\ SourceRequests[1].val = 4096 /\ SourceRequests[2].val = 1024
    /\ call.ret = ERROR_TARGET_RESOURCE_NOT_AVAILABLE

\* Words handed to the routine by the first k runs of the call.
RECURSIVE WordsBefore(_)
WordsBefore(k) == IF k <= 1 THEN 0 ELSE WordsBefore(k - 1) + call.runs[k - 1].r2

\* The smaller of two numbers.
Min(a, b) == IF a < b THEN a ELSE b

\* C25: run k of numicro_writeblock stages n = min(words remaining, B / 4)
\* words, B the size of the data buffer, and is given the buffer, the flash
\* address base + offset + 4 * (words done) and n; a call that succeeds has
\* given the controller every word of the source once, in order, at the
\* addresses from base + offset on, four bytes apart.
C25_RunsAdvance ==
    call.op = "writeblock" =>
        /\ \A k \in 1..Len(call.runs) :
              /\ call.runs[k].r0 = "source"
              /\ call.runs[k].r2 =
                    Min(call.args[2] - WordsBefore(k),
                        call.runs[k].buffer_size \div 4)
              /\ call.runs[k].staged = call.runs[k].r2
              /\ call.runs[k].r1 =
                    call.bank0.base + call.args[1] + 4 * WordsBefore(k)
        /\ (call.ret = ERROR_OK) =>
              /\ WordsBefore(Len(call.runs) + 1) = call.args[2]
              /\ Len(call.ops) = call.args[2]
              /\ \A j \in 1..Len(call.ops) :
                    /\ call.ops[j].addr =
                          call.bank0.base + call.args[1] + 4 * (j - 1)
                    /\ call.ops[j].dat = call.buf[j]

\* 130 words went through a buffer of 257 bytes in runs of 64, 64 and 2.
C25_Witness ==
    /\ call.op = "writeblock" /\ call.ret = ERROR_OK
    /\ call.args = <<0, 130>> /\ Len(call.runs) = 3
    /\ call.runs[1].buffer_size = 257
    /\ call.runs[3].r1 = 512 /\ call.runs[3].r2 = 2

\* The launches of the routine, by their place in the call's trace.
Launches == {k \in 1..Len(call.log) : call.log[k].op = "run_algorithm"}

\* Words a run can take: a quarter of the size of the buffer granted.
WordsPerRun ==
    IF LastRefused \/ SourceRequests = <<>> THEN 0
    ELSE SourceRequests[Len(SourceRequests)].val \div 4

\* C26: the loop of numicro_writeblock ends: every run is given at least one
\* word, the buffer being larger than 256 bytes, so the routine is launched
\* at most ceil(count / (B / 4)) times, and never when count is 0.
C26_BoundedRuns ==
    call.op = "writeblock" =>
        /\ \A k \in Launches : call.log[k].val >= 1
        /\ Launches # {} =>
              /\ SourceRequests[Len(SourceRequests)].val > 256
              /\ WordsPerRun >= 64
              /\ Cardinality(Launches) * WordsPerRun
                    < call.args[2] + WordsPerRun
        /\ call.args[2] = 0 => Launches = {}

\* 300 words went through a buffer of 1024 bytes in two runs.
C26_Witness ==
    /\ call.op = "writeblock" /\ call.ret = ERROR_OK
    /\ call.args = <<0, 300>> /\ WordsPerRun = 256
    /\ Cardinality(Launches) = 2

\* C27: when a launch of the routine fails, by a failure of the host or by
\* the routine not coming back, numicro_writeblock launches it no more,
\* returns ERROR_FLASH_OPERATION_FAILED and has released both working areas.
C27_RunFailure ==
    call.op = "writeblock" =>
        \A k \in Launches :
            ~call.log[k].ok =>
                /\ call.ret = ERROR_FLASH_OPERATION_FAILED
                /\ call.areas = {}
                /\ \A j \in (k + 1)..Len(call.log) : call.log[j].op = "free"
                /\ Cardinality({j \in (k + 1)..Len(call.log) :
                                    call.log[j].op = "free"}) = 2

\* The routine did not come back from its second word: the controller
\* stayed busy and the host gave up waiting.
C27_Witness ==
    /\ call.op = "writeblock" /\ call.args = <<0, 130>> /\ call.busy0 = 0
    /\ call.env.slowOp = 2 /\ call.env.slowDelay = Stuck
    /\ Cardinality(Launches) = 1 /\ Len(call.ops) = 2
    /\ call.log[Len(call.log) - 2].op = "run_algorithm"
    /\ ~call.log[Len(call.log) - 2].ok
    /\ call.ret = ERROR_FLASH_OPERATION_FAILED /\ call.areas = {}

\* The stores of the call to the address register, by their place in the
\* call's trace.
AddressStores == {k \in 1..Len(call.log) : IsW(call.log[k], NUMICRO_FLASH_ISPADR)}

\* The number of the word whose address store is access a.
WordOf(a) == Cardinality({j \in AddressStores : j < a})

\* Access k exists and is a store of v to the register at addr.
StoresAt(k, addr, v) ==
    k <= Len(call.log) => IsW(call.log[k], addr) /\ call.log[k].val = v

\* The accesses of the per-word loop for the word whose address store is
\* access a: address, data, GO, then polls alone until the next word; the
\* next word is begun only after a poll has read zero.
FallbackWord(a) ==
    /\ call.log[a].val = call.bank0.base + call.args[1] + 4 * WordOf(a)
    /\ call.log[a].ok =>
          StoresAt(a + 1, NUMICRO_FLASH_ISPDAT, call.buf[WordOf(a) + 1])
    /\ (a + 1 <= Len(call.log) /\ call.log[a + 1].ok) =>
          StoresAt(a + 2, NUMICRO_FLASH_ISPTRG, ISPTRG_ISPGO)
    /\ \A b \in AddressStores :
          b > a =>
              /\ b > a + 3
              /\ \E p \in (a + 3)..(b - 1) : SawZero(call.log[p])

\* C28: write makes the session initialisation, then one store of
\* ISPCMD_WRITE to the command register, then the attempt at the block
\* write; the per-word loop stores for word i the address base + offset +
\* 4 i, then the word, then GO, and polls until a read of the trigger
\* register gives zero before it begins word i + 1; the command register is
\* stored to once in the call, and every operation the controller is given,
\* by the routine or by the per-word loop, is a program operation.
C28_WriteOrder ==
    (call.op = "write" /\ call.halted) =>
        /\ Cardinality({k \in 1..Len(call.log) :
                           IsW(call.log[k], NUMICRO_FLASH_ISPCMD)}) <= 1
        /\ InitDone =>
              /\ Len(call.log) > UnlockLen + 5
              /\ StoresAt(UnlockLen + 6, NUMICRO_FLASH_ISPCMD, ISPCMD_WRITE)
              /\ call.log[UnlockLen + 6].ok =>
                    /\ Len(call.log) > UnlockLen + 6
                    /\ call.log[UnlockLen + 7].op = "alloc"
                    /\ call.log[UnlockLen + 7].addr = "write_algorithm"
        /\ \A j \in 1..Len(call.ops) : call.ops[j].cmd = ISPCMD_WRITE
        /\ AddressStores # {} => call.fellback
        /\ \A a \in AddressStores : a > UnlockLen + 7 /\ FallbackWord(a)

\* 65 words went through the per-word loop, the first of them slowly.
C28_Witness ==
    /\ call.op = "write" /\ call.halted /\ call.fellback
    /\ call.args = <<0, 260>> /\ call.ret = ERROR_OK
    /\ call.env.slowOp = 1 /\ call.env.slowDelay = 100
    /\ Cardinality(AddressStores) = 65 /\ Len(call.ops) = 65

\* Access k is a read of the flash-control register after the session
\* initialisation.
IsCheck(k) ==
    k > UnlockLen + 5 /\ IsR(call.log[k], NUMICRO_FLASH_ISPCON)

Checks == {k \in 1..Len(call.log) : IsCheck(k)}

\* Operations the controller has completed under the eyes of the host:
\* polls of the per-sector or per-word loop that have read zero.
ZeroPolls == {k \in 1..Len(call.log) : SawZero(call.log[k])}

\* C30: after a write, by either path, and after each erased sector the
\* flash-control register is read once; it is stored to, with ISPFF set and
\* every other bit as read, exactly when the read had ISPFF set.
C30_FailureFlagCleared ==
    (call.op \in {"write", "erase"} /\ call.halted) =>
        /\ \A k \in Checks :
              call.log[k].ok =>
                  IF BitAnd(call.log[k].val, ISPCON_ISPFF) # 0
                  THEN /\ k < Len(call.log)
                       /\ IsW(call.log[k + 1], NUMICRO_FLASH_ISPCON)
                       /\ call.log[k + 1].val = call.log[k].val
                  ELSE k < Len(call.log) =>
                           ~IsW(call.log[k + 1], NUMICRO_FLASH_ISPCON)
        /\ \A k \in (UnlockLen + 6)..Len(call.log) :
              IsW(call.log[k], NUMICRO_FLASH_ISPCON) =>
                  /\ IsCheck(k - 1) /\ call.log[k - 1].ok
                  /\ BitAnd(call.log[k - 1].val, ISPCON_ISPFF) # 0
        /\ call.op = "write" =>
              /\ Cardinality(Checks) <= 1
              /\ call.ret = ERROR_OK => Cardinality(Checks) = 1
        /\ call.op = "erase" =>
              /\ \A k \in Checks : SawZero(call.log[k - 1])
              /\ \A p \in ZeroPolls : p < Len(call.log) /\ IsCheck(p + 1)
              /\ call.ret = ERROR_OK =>
                    Cardinality(Checks) = call.args[2] - call.args[1] + 1

\* The second of three sectors set the failure flag; it was read set and
\* written back after that sector alone.
C30_Witness ==
    /\ call.op = "erase" /\ call.halted /\ call.args = <<0, 2>>
    /\ call.env.ffOp = 2 /\ call.ret = ERROR_OK
    /\ Cardinality(Checks) = 3
    /\ Cardinality({k \in (UnlockLen + 6)..Len(call.log) :
                       IsW(call.log[k], NUMICRO_FLASH_ISPCON)}) = 1

\* C29: on the same values read from the trigger register the poll loop of
\* the per-word loop and the poll loop of numicro_fmc_cmd end alike: both
\* complete at the first read with the GO bit clear, whatever the other
\* bits, or both time out after the same number of polls.
C29_SamePoll ==
    call.op = "poll" =>
        /\ call.args[3] = call.args[5]
        /\ call.args[4] = call.args[6]

\* With the other bits of the trigger register reading zero the two loops
\* end alike.
C29_SamePollOnZeroBits ==
    (call.op = "poll" /\ call.args[2] = 0) =>
        /\ call.args[3] = call.args[5]
        /\ call.args[4] = call.args[6]

\* The accesses of numicro_erase for the sector whose address store is
\* access a: the sector's address, then GO, then reads alone (polls of the
\* trigger register, the check of the flash-control register) and the
\* store that clears the failure flag; the next sector is begun only
\* after the check.
EraseSector(a) ==
    /\ call.log[a].val =
          call.bank0.base
          + call.bank0.sectors[call.args[1] + WordOf(a) + 1].offset
    /\ call.log[a].ok => StoresAt(a + 1, NUMICRO_FLASH_ISPTRG, ISPTRG_ISPGO)
    /\ \A b \in AddressStores :
          b > a => \E p \in (a + 3)..(b - 1) : IsCheck(p) /\ call.log[p].ok

\* C31 as amended: erase stores ISPCMD_ERASE to the command register once,
\* after the session initialisation and before the first sector; for each
\* sector of the range it stores the sector's address, then GO, then polls
\* the trigger register until a read gives exactly zero, at most
\* FMC_TIMEOUT + 1 times, and only after such a read inspects the failure
\* flag and goes on to the next sector; every operation the controller is
\* given is an erase.
C31_EraseOrder ==
    (call.op = "erase" /\ call.halted) =>
        /\ Cardinality({k \in 1..Len(call.log) :
                           IsW(call.log[k], NUMICRO_FLASH_ISPCMD)}) <= 1
        /\ InitDone =>
              /\ Len(call.log) > UnlockLen + 5
              /\ StoresAt(UnlockLen + 6, NUMICRO_FLASH_ISPCMD, ISPCMD_ERASE)
        /\ \A j \in 1..Len(call.ops) : call.ops[j].cmd = ISPCMD_ERASE
        /\ \A a \in AddressStores : a > UnlockLen + 6 /\ EraseSector(a)
        /\ \A k \in Checks : SawZero(call.log[k - 1])
        /\ \A k \in (UnlockLen + 7)..Len(call.log) :
              (IsR(call.log[k], NUMICRO_FLASH_ISPTRG) /\ call.log[k].ok
               /\ call.log[k].val # 0 /\ k < Len(call.log)) =>
                  IsR(call.log[k + 1], NUMICRO_FLASH_ISPTRG)
        /\ \A k \in (UnlockLen + 7)..(Len(call.log) - FMC_TIMEOUT - 1) :
              \E p \in k..(k + FMC_TIMEOUT + 1) :
                  ~IsR(call.log[p], NUMICRO_FLASH_ISPTRG)
        /\ call.ret = ERROR_FAIL =>
              \A p \in (Len(call.log) - FMC_TIMEOUT)..Len(call.log) :
                  IsR(call.log[p], NUMICRO_FLASH_ISPTRG) /\ ~SawZero(call.log[p])

\* C31 as stated: for each sector the erase command is stored to the command
\* register just before the sector's address.
C31_AsStated ==
    (call.op = "erase" /\ call.halted) =>
        \A a \in AddressStores :
            /\ IsW(call.log[a - 1], NUMICRO_FLASH_ISPCMD)
            /\ call.log[a - 1].val = ISPCMD_ERASE

\* Three sectors were erased, the second slowly, after one store of the
\* erase command.
C31_Witness ==
    /\ call.op = "erase" /\ call.halted /\ call.args = <<0, 2>>
    /\ call.ret = ERROR_OK /\ call.env.slowOp = 2 /\ call.env.slowDelay = 100
    /\ Cardinality(AddressStores) = 3 /\ Cardinality(Checks) = 3
    /\ Cardinality({k \in 1..Len(call.log) :
                       IsW(call.log[k], NUMICRO_FLASH_ISPCMD)}) = 1

\* C32: the per-word loop of numicro_write runs only in a call in which the
\* routine was never launched: numicro_writeblock returns
\* ERROR_TARGET_RESOURCE_NOT_AVAILABLE only before its first launch, a call
\* that launched the routine makes no per-word store, and no flash address
\* is programmed twice within one call.
C32_ExclusivePaths ==
    (call.op = "write" /\ call.halted) =>
        /\ call.blockret = ERROR_TARGET_RESOURCE_NOT_AVAILABLE =>
              Launches = {} /\ call.runs = <<>>
        /\ call.fellback =>
              call.blockret = ERROR_TARGET_RESOURCE_NOT_AVAILABLE
        /\ Launches # {} =>
              /\ ~call.fellback
              /\ AddressStores = {}
              /\ \A k \in 1..Len(call.log) :
                    ~IsW(call.log[k], NUMICRO_FLASH_ISPDAT)
        /\ \A j, k \in 1..Len(call.ops) :
              j < k => call.ops[j].addr # call.ops[k].addr

\* Both paths taken, in different calls: a write of 65 words whose data
\* buffer was refused after the routine had been uploaded went word by
\* word without a launch.
C32_Witness ==
    /\ call.op = "write" /\ call.halted /\ call.fellback
    /\ call.blockret = ERROR_TARGET_RESOURCE_NOT_AVAILABLE
    /\ \E k \in 1..Len(call.log) :
          /\ call.log[k].op = "write_buffer"
          /\ call.log[k].addr = "write_algorithm"
          /\ call.log[k].ok
    /\ Launches = {} /\ call.runs = <<>>
    /\ Len(call.ops) = 65 /\ Cardinality(AddressStores) = 65
    /\ call.ret = ERROR_OK

\* The size in bytes of the data buffer the call was granted, 0 when it
\* was granted none.
GrantedSize ==
    IF LastRefused \/ SourceRequests = <<>> THEN 0
    ELSE SourceRequests[Len(SourceRequests)].val

\* C33: in every iteration of the loop of numicro_writeblock the bytes
\* copied to the data buffer, four per word of the run, are no more than
\* the size at which the buffer was granted, whatever the working-area
\* size and however many requests were refused before.
C33_StagedFits ==
    call.op = "writeblock" =>
        /\ \A k \in 1..Len(call.log) :
              (call.log[k].op = "write_buffer" /\ call.log[k].addr = "source") =>
                  /\ GrantedSize > 0
                  /\ 4 * call.log[k].val <= GrantedSize
        /\ \A k \in 1..Len(call.runs) :
              /\ call.runs[k].buffer_size = GrantedSize
              /\ call.runs[k].r2 = call.runs[k].staged
              /\ 4 * call.runs[k].staged <= GrantedSize

\* A buffer of 257 bytes, granted after a refusal, took 64 words in each
\* of two full runs and the rest in a third.
C33_Witness ==
    /\ call.op = "writeblock" /\ call.ret = ERROR_OK
    /\ Len(SourceRequests) = 2 /\ GrantedSize = 257
    /\ Len(call.runs) = 3
    /\ call.runs[1].staged = 64 /\ call.runs[2].staged = 64
    /\ call.runs[3].staged = 2

\* C34: numicro_probe does its work whether or not the bank is probed: it
\* reads the part ID, and on success leaves a new sector array whose sectors
\* are all of unknown erase state and unprotected, whatever protect_check
\* had recorded; when it fails the bank is as before the call, still probed
\* with its sectors if it was.  Only auto_probe of a probed bank reads
\* nothing.
C34_ProbeNotMemoized ==
    /\ call.op = "probe" =>
          /\ Len(call.log) = 1 /\ IsR(call.log[1], NUMICRO_SYS_BASE)
          /\ bank = call.bank1
          /\ call.ret = ERROR_OK =>
                /\ call.bank1.probed
                /\ Len(call.bank1.sectors) = call.bank1.num_sectors
                /\ \A i \in 1..call.bank1.num_sectors :
                      /\ call.bank1.sectors[i].is_erased = -1
                      /\ call.bank1.sectors[i].is_protected = 0
          /\ call.ret # ERROR_OK => call.bank1 = call.bank0
    /\ (call.op = "auto_probe" /\ call.bank0.probed) =>
          call.log = <<>> /\ call.bank1 = call.bank0

\* A probe of a bank whose sectors protect_check had marked protected
\* read the part ID and left them unprotected.
C34_Witness ==
    /\ call.op = "probe" /\ call.ret = ERROR_OK
    /\ call.bank0.probed /\ call.bank0.num_sectors > 0
    /\ \A i \in 1..call.bank0.num_sectors :
          call.bank0.sectors[i].is_protected = 1
    /\ PartIdRead
    /\ call.bank1.num_sectors = call.bank0.num_sectors
    /\ \A i \in 1..call.bank1.num_sectors :
          call.bank1.sectors[i].is_protected = 0

\* A probe of a probed bank failed and left it probed with its sectors.
C34_FailedReprobe ==
    /\ call.op = "probe" /\ call.ret # ERROR_OK
    /\ call.bank0.probed /\ bank.probed /\ bank.sectors = call.bank0.sectors
    /\ \E i \in 1..bank.num_sectors : bank.sectors[i].is_protected = 1

C35_EmptyRegion ==
    /\ call.op = "probe" /\ call.ret = ERROR_OK /\ call.env.partid = 0
    /\ call.bank0.base = NUMICRO_DATA_BASE
    /\ call.bank1.size = 0 /\ call.bank1.num_sectors = 0 /\ call.bank1.probed

\* C36: a part ID that reads 0 is found in the catalog: the probe resolves
\* it to the entry UNKNOWN, with 128 KiB of program flash, no data flash,
\* 16 KiB of loader flash and 8 bytes of config, so that the probe of a bank
\* at one of the four region bases succeeds, of a bank at the program base
\* with 256 sectors.
C36_ZeroIsUnknown ==
    (Probing /\ PartIdRead /\ call.env.partid = 0) =>
        /\ call.log[1].val = 0
        /\ call.ret = ERROR_OK <=> call.bank0.base # UnmatchedBase
        /\ call.ret = ERROR_OK =>
              /\ call.bank1.cpu = "UNKNOWN" /\ call.bank1.probed
              /\ call.bank1.size =
                    CASE call.bank0.base = NUMICRO_APROM_BASE -> 128 * 1024
                      [] call.bank0.base = NUMICRO_DATA_BASE -> 0
                      [] call.bank0.base = NUMICRO_LDROM_BASE -> 16 * 1024
                      [] call.bank0.base = NUMICRO_CONFIG_BASE -> 8
              /\ call.bank0.base = NUMICRO_APROM_BASE =>
                    /\ call.bank1.num_sectors = 256
                    /\ Len(call.bank1.sectors) = 256
                    /\ call.bank1.sectors[256].offset = 255 * NUMICRO_PAGESIZE

\* The probe of a bank at the program base of a part whose ID reads 0
\* succeeded with 256 sectors.
C36_Witness ==
    /\ call.op = "probe" /\ PartIdRead /\ call.env.partid = 0
    /\ call.bank0.base = NUMICRO_APROM_BASE /\ call.ret = ERROR_OK
    /\ call.bank1.cpu = "UNKNOWN" /\ call.bank1.num_sectors = 256

====
